---- MODULE Spec2Model ----
(***************************************************************************)
(* A model of the TGV punctuality dashboard: the cleaning step, the        *)
(* session-held canonical table, the filter engine and the aggregation     *)
(* operations of utils/compute.py, utils/geo.py and pages/05_Geo_View.py.  *)
(*                                                                         *)
(* Conventions.                                                            *)
(*  - A table (DataFrame) is a sequence of rows; a row is a record.        *)
(*  - A missing cell (pd.NA / NaN / NaT) is the value NA.                  *)
(*  - A station name is a string, modelled as the sequence of its code     *)
(*    points, so that "<=" on names is Python's code-point order.          *)
(*  - A float that the code obtains by a division is kept exact, as the    *)
(*    fraction [n |-> numerator, d |-> denominator]; NaN is the fraction   *)
(*    with d = 0.                                                          *)
(*  - A year-month string "YYYY-MM" is the pair <<year, month>>; a         *)
(*    timestamp of a month start is the number of months since year 0.     *)
(***************************************************************************)
EXTENDS Integers, Sequences, FiniteSets, TLC

(* ------------------------------ bounds --------------------------------- *)

\* Longest raw table drawn for the aggregation and session specifications.
MaxRows == 3

\* Longest raw table drawn for the filter specification.
MaxFilterRows == 2

(* ------------------------- missing values ------------------------------ *)

\* pd.NA / NaN / NaT: the missing cell.
NA == -999

\* A CSV cell that is no number; pd.to_numeric(errors="coerce") makes it NA.
BadToken == -998

isna(v) == v = NA
notna(v) == v # NA
fillna0(v) == IF v = NA THEN 0 ELSE v

\* An optional value: absent, or present.
None == <<>>
Some(x) == <<x>>

(* ----------------------------- strings --------------------------------- *)

\* Code points used in names: space, hyphen, letters, accented e, arrows.
SP == <<32>>
ARROW == <<8594>>
BIARROW == <<8596>>

\* Python's str < str: lexicographic order on code points.
StrLt(a, b) ==
    \E i \in 1..(Len(b)) :
        /\ \A j \in 1..(i - 1) : j <= Len(a) /\ a[j] = b[j]
        /\ \/ i > Len(a)
           \/ i <= Len(a) /\ a[i] < b[i]

StrLe(a, b) == a = b \/ StrLt(a, b)

\* str.strip() restricted to spaces.
RECURSIVE lstrip(_)
lstrip(s) == IF s # <<>> /\ Head(s) = 32 THEN lstrip(Tail(s)) ELSE s

RECURSIVE rstrip(_)
rstrip(s) ==
    IF s # <<>> /\ s[Len(s)] = 32 THEN rstrip(SubSeq(s, 1, Len(s) - 1)) ELSE s

strip(s) == rstrip(lstrip(s))

\* "c in s" for a one-character c.
Contains(s, c) == \E i \in 1..Len(s) : s[i] = c

\* Index of the first occurrence of c in s (s contains c).
FirstIndex(s, c) == CHOOSE i \in 1..Len(s) : s[i] = c /\ \A j \in 1..(i - 1) : s[j] # c

\* s.split(c, 1): the parts before and after the first c.
Split1(s, c) ==
    LET i == FirstIndex(s, c)
    IN  <<SubSeq(s, 1, i - 1), SubSeq(s, i + 1, Len(s))>>

Concat3(a, b, c) == a \o b \o c

(* --------------------------- dates ------------------------------------- *)

\* pd.to_datetime(s, format="%Y-%m") succeeds on s: a year and a month 1..12.
IsYM(s) == Len(s) = 2 /\ s[2] \in 1..12

\* The month-start timestamp of a well-formed "YYYY-MM".
ToTimestamp(s) == s[1] * 12 + (s[2] - 1)

\* pd.to_datetime(s, format="%Y-%m", errors="coerce"): NaT when s is malformed.
ToDatetimeCoerce(s) == IF IsYM(s) THEN ToTimestamp(s) ELSE NA

\* Timestamp.strftime("%Y-%m").
Strftime(t) == <<t \div 12, (t % 12) + 1>>

\* The days of the month t.
DaysInMonth(t) ==
    LET y == t \div 12
        m == (t % 12) + 1
        leap == (y % 4 = 0 /\ y % 100 # 0) \/ y % 400 = 0
    IN  IF m = 2 THEN (IF leap THEN 29 ELSE 28)
        ELSE IF m \in {4, 6, 9, 11} THEN 30 ELSE 31

\* Timestamp.date() of the first day of month t, as a day number counted from
\* 2019-01-01 (no table drawn here is older).
RECURSIVE ToDate(_)
ToDate(t) == IF t <= ToTimestamp(<<2019, 1>>) THEN 0 ELSE ToDate(t - 1) + DaysInMonth(t - 1)

\* The month a day number falls in.
RECURSIVE MonthFrom(_, _)
MonthFrom(d, t) == IF d < ToDate(t + 1) THEN t ELSE MonthFrom(d, t + 1)

\* pd.to_datetime(d).strftime("%Y-%m") of a date.
StrftimeDate(d) == Strftime(MonthFrom(d, ToTimestamp(<<2019, 1>>)))

\* Comparisons of timestamps: any comparison with NaT is False.
TsGe(a, b) == a # NA /\ b # NA /\ a >= b
TsLe(a, b) == a # NA /\ b # NA /\ a <= b

(* ------------------------- fractions (floats) -------------------------- *)

NaN == [n |-> 0, d |-> 0]

Abs(x) == IF x < 0 THEN -x ELSE x

RECURSIVE GCD(_, _)
GCD(a, b) == IF b = 0 THEN a ELSE GCD(b, a % b)

\* The float n/d in lowest terms with a positive denominator; d = 0 is NaN.
Frac(n, d) ==
    IF d = 0 THEN NaN
    ELSE LET g == GCD(Abs(n), Abs(d))
             sg == IF d < 0 THEN -1 ELSE 1
         IN  [n |-> (sg * n) \div g, d |-> (sg * d) \div g]

IsNaN(f) == f.d = 0
\* f = k, k an integer
FracEq(f, k) == f.d # 0 /\ f.n = k * f.d
\* lo <= f <= hi for a defined f
FracIn(f, lo, hi) == f.d > 0 /\ lo * f.d <= f.n /\ f.n <= hi * f.d
FracSame(f, g) == (f.d = 0 /\ g.d = 0) \/ (f.d # 0 /\ g.d # 0 /\ f.n * g.d = g.n * f.d)
FracLt(f, g) == f.d > 0 /\ g.d > 0 /\ f.n * g.d < g.n * f.d

\* A numeric cell as a float: a missing cell is NaN.
FromInt(v) == IF v = NA THEN NaN ELSE Frac(v, 1)

\* Float arithmetic: NaN propagates.
FAdd(f, g) == IF IsNaN(f) \/ IsNaN(g) THEN NaN ELSE Frac(f.n * g.d + g.n * f.d, f.d * g.d)
FMul(f, g) == IF IsNaN(f) \/ IsNaN(g) THEN NaN ELSE Frac(f.n * g.n, f.d * g.d)
\* Used only where the code has already replaced a zero divisor by NaN or tested it.
FDiv(f, g) == IF IsNaN(f) \/ IsNaN(g) \/ g.n = 0 THEN NaN ELSE Frac(f.n * g.d, f.d * g.n)

\* Series.replace(0, np.nan)
Replace0(f) == IF FracEq(f, 0) THEN NaN ELSE f
\* Series.fillna(0) on a float column
FillNaN0(f) == IF IsNaN(f) THEN Frac(0, 1) ELSE f

\* round(x, 1): to one decimal, ties to even; NaN stays NaN.
Round1(f) ==
    IF IsNaN(f) THEN NaN
    ELSE LET t == 10 * f.n
             q == t \div f.d
             r2 == 2 * (t % f.d)
             up == r2 > f.d \/ (r2 = f.d /\ q % 2 = 1)
         IN  Frac(IF up THEN q + 1 ELSE q, 10)

(* ----------------------------- cleaning -------------------------------- *)

CauseCols == <<"pct_cause_external", "pct_cause_infra", "pct_cause_traffic",
               "pct_cause_rollingstock", "pct_cause_station_reuse",
               "pct_cause_passengers">>

\* pd.to_numeric(errors="coerce"): a non-numeric token becomes missing.
_coerce_int(v) == IF v = BadToken THEN NA ELSE v
_coerce_float(v) == IF v = BadToken THEN NA ELSE v

_duration_class(mins) ==
    IF isna(mins) THEN "unknown"
    ELSE IF mins < 90 THEN "< 1h30"
    ELSE IF mins <= 180 THEN "1h30-3h"
    ELSE "> 3h"

clip_lower0(v) == IF v < 0 THEN 0 ELSE v

\* circulated without the clamp at 0.
CirculatedOf_noclip(planned, canceled) == fillna0(planned) - fillna0(canceled)

\* df["circulated"] = (planned.fillna(0) - canceled.fillna(0)).clip(lower=0)
CirculatedOf(planned, canceled) == clip_lower0(fillna0(planned) - fillna0(canceled))

\* np.where(planned > 0, 100 * canceled.fillna(0) / planned, nan)
CancelRateOf(planned, canceled) ==
    IF notna(planned) /\ planned > 0 THEN Frac(100 * fillna0(canceled), planned) ELSE NaN

\* The date column of clean(): an empty cell parses to NaT.
CleanDate(s) == IF s = <<>> THEN NA ELSE ToTimestamp(s)

\* clean() raises on a date that is neither empty nor "YYYY-MM".
CleanRaises(raw) == \E i \in 1..Len(raw) : raw[i].date # <<>> /\ ~IsYM(raw[i].date)

CleanRow(r, idx) ==
    LET planned == _coerce_int(r.planned)
        canceled == _coerce_int(r.canceled)
        l15 == _coerce_int(r.late_over_15_count)
        l30 == _coerce_int(r.late_over_30_count)
        l60 == _coerce_int(r.late_over_60_count)
        dur == _coerce_int(r.avg_duration_min)
        circ == CirculatedOf(planned, canceled)
        cause == [k \in DOMAIN r.cause |-> _coerce_float(r.cause[k])]
    IN  [row_id |-> idx,
         date |-> CleanDate(r.date),
         service |-> r.service,
         departure |-> r.departure,
         arrival |-> r.arrival,
         avg_duration_min |-> dur,
         planned |-> planned,
         canceled |-> canceled,
         late_arr_count |-> _coerce_int(r.late_arr_count),
         late_over_15_count |-> l15,
         late_over_30_count |-> l30,
         late_over_60_count |-> l60,
         avg_delay_arr_delayed_min |-> _coerce_float(r.avg_delay_arr_delayed_min),
         avg_delay_arr_all_min |-> _coerce_float(r.avg_delay_arr_all_min),
         cause |-> cause,
         liaison |-> Concat3(r.departure, SP \o ARROW \o SP, r.arrival),
         duration_class |-> _duration_class(dur),
         circulated |-> circ,
         cancel_rate_pct |-> CancelRateOf(planned, canceled),
         check_late_chain_ok |->
             /\ fillna0(l60) <= fillna0(l30)
             /\ fillna0(l30) <= fillna0(l15)
             /\ fillna0(l15) <= fillna0(circ),
         check_bounds |->
             [k \in DOMAIN cause |-> (cause[k] # NA /\ cause[k] >= 0 /\ cause[k] <= 100)
                                     \/ cause[k] = NA]]

\* clean(df_raw), when it does not raise.
clean(raw) == [i \in 1..Len(raw) |-> CleanRow(raw[i], i)]

(* ------------------------- sorting helpers ----------------------------- *)

\* sorted(set of integers) as a sequence.
RECURSIVE SortInts(_)
SortInts(S) ==
    IF S = {} THEN <<>>
    ELSE LET m == CHOOSE x \in S : \A y \in S : x <= y
         IN  <<m>> \o SortInts(S \ {m})

\* sorted(set of strings) as a sequence, in code-point order.
RECURSIVE SortStrs(_)
SortStrs(S) ==
    IF S = {} THEN <<>>
    ELSE LET m == CHOOSE x \in S : \A y \in S : StrLe(x, y)
         IN  <<m>> \o SortStrs(S \ {m})

\* filter_values(df): the filter catalog.
filter_values(df) ==
    LET dates == SortInts({df[i].date : i \in 1..Len(df)} \ {NA})
    IN  [date_options |-> [i \in 1..Len(dates) |-> Strftime(dates[i])],
         services |-> {df[i].service : i \in 1..Len(df)},
         departures |-> {df[i].departure : i \in 1..Len(df)},
         arrivals |-> {df[i].arrival : i \in 1..Len(df)},
         duration_classes |-> {"< 1h30", "1h30-3h", "> 3h"}]

(* --------------------------- filter engine ----------------------------- *)

\* session.get(key, default)
Get(session, key, default) == IF key \in DOMAIN session THEN session[key] ELSE default

\* _between_ym with the start bound exclusive.
_between_ym_exclusive(row, start_ym, end_ym) ==
    LET start == ToDatetimeCoerce(start_ym)
        end == ToDatetimeCoerce(end_ym)
    IN  TsGe(row.date, start) /\ row.date # start /\ TsLe(row.date, end)

\* _between_ym, for one row
_between_ym(row, start_ym, end_ym) ==
    LET start == ToDatetimeCoerce(start_ym)
        end == ToDatetimeCoerce(end_ym)
    IN  TsGe(row.date, start) /\ TsLe(row.date, end)

\* The station mask with the bidirectional branch matching by direction.
StationMask_directed(row, dep_sel, arr_sel, treat_bi) ==
    /\ (dep_sel # {} => row.departure \in dep_sel)
    /\ (arr_sel # {} => row.arrival \in arr_sel)

\* The station mask with the directed branch matching either endpoint.
StationMask_either(row, dep_sel, arr_sel, treat_bi) ==
    /\ (dep_sel # {} => row.departure \in dep_sel \/ row.arrival \in dep_sel)
    /\ (arr_sel # {} => row.departure \in arr_sel \/ row.arrival \in arr_sel)

\* The station part of the mask of apply_overview_filters, for one row.
StationMask(row, dep_sel, arr_sel, treat_bi) ==
    IF dep_sel # {} \/ arr_sel # {}
    THEN IF treat_bi
         THEN LET m_dep == IF dep_sel = {} THEN TRUE
                           ELSE row.departure \in dep_sel \/ row.arrival \in dep_sel
                  m_arr == IF arr_sel = {} THEN TRUE
                           ELSE row.departure \in arr_sel \/ row.arrival \in arr_sel
              IN  m_dep /\ m_arr
         ELSE /\ (dep_sel # {} => row.departure \in dep_sel)
              /\ (arr_sel # {} => row.arrival \in arr_sel)
    ELSE TRUE

\* The mask of apply_overview_filters, for one row.
FilterMask(row, session) ==
    /\ _between_ym(row, session["date_start"], session["date_end"])
    /\ (Get(session, "service", {}) # {} => row.service \in session["service"])
    /\ (Get(session, "duration_class", {}) # {}
            => row.duration_class \in session["duration_class"])
    /\ StationMask(row, Get(session, "departures", {}), Get(session, "arrivals", {}),
                   Get(session, "treat_bidirectional", FALSE))

\* df.loc[mask]: the rows a predicate keeps, in order.
RECURSIVE SelectRows(_, _, _)
SelectRows(df, session, i) ==
    IF i > Len(df) THEN <<>>
    ELSE (IF FilterMask(df[i], session) THEN <<df[i]>> ELSE <<>>)
         \o SelectRows(df, session, i + 1)

\* apply_overview_filters(df, session): a new table, the rows of df the mask keeps.
apply_overview_filters(df, session) == SelectRows(df, session, 1)

(* ------------------------- series and groups --------------------------- *)

\* The rows of df at the positions in idx, in table order.
RECURSIVE RowsFrom(_, _, _)
RowsFrom(df, idx, i) ==
    IF i > Len(df) THEN <<>>
    ELSE (IF i \in idx THEN <<df[i]>> ELSE <<>>) \o RowsFrom(df, idx, i + 1)

SelectRowsAt(df, idx) == RowsFrom(df, idx, 1)

Col(df, c) == [i \in 1..Len(df) |-> df[i][c]]
FloatCol(df, c) == [i \in 1..Len(df) |-> FromInt(df[i][c])]
CauseCol(df, k) == [i \in 1..Len(df) |-> FromInt(df[i].cause[k])]

\* Series.sum() of an integer column: missing values are skipped, the empty sum is 0.
RECURSIVE SumInts(_)
SumInts(s) == IF s = <<>> THEN 0 ELSE fillna0(Head(s)) + SumInts(Tail(s))

\* Series.sum() of a float column: NaN is skipped, the empty sum is 0.
RECURSIVE SumFloats(_)
SumFloats(s) ==
    IF s = <<>> THEN Frac(0, 1)
    ELSE IF IsNaN(Head(s)) THEN SumFloats(Tail(s))
    ELSE FAdd(Head(s), SumFloats(Tail(s)))

CountDefined(s) == Cardinality({i \in 1..Len(s) : ~IsNaN(s[i])})

\* Series.mean(): NaN is skipped; no defined value gives NaN.
MeanFloats(s) ==
    IF CountDefined(s) = 0 THEN NaN ELSE FDiv(SumFloats(s), Frac(CountDefined(s), 1))

\* Code-point order of the texts that occur in service and duration_class.
TextRank(t) ==
    CASE t = "1h30-3h" -> 1
      [] t = "< 1h30" -> 2
      [] t = "> 3h" -> 3
      [] t = "International" -> 4
      [] t = "National" -> 5
      [] t = "unknown" -> 6

\* The group keys of a text column, in sorted order.
RECURSIVE SortTexts(_)
SortTexts(S) ==
    IF S = {} THEN <<>>
    ELSE LET m == CHOOSE x \in S : \A y \in S : TextRank(x) <= TextRank(y)
         IN  <<m>> \o SortTexts(S \ {m})

\* A mode that would take, on a tie, the value met first in the series.
_mode_firstseen(s) ==
    LET vals == {s[i] : i \in 1..Len(s)}
        count(v) == Cardinality({i \in 1..Len(s) : s[i] = v})
        top == {v \in vals : \A u \in vals : count(u) <= count(v)}
        at(v) == CHOOSE i \in 1..Len(s) : s[i] = v /\ \A j \in 1..(i - 1) : s[j] # v
    IN  IF vals = {} THEN "None"
        ELSE CHOOSE v \in top : \A u \in top : at(v) <= at(u)

\* s.mode().iloc[0]: the most frequent value, the smallest of them on a tie.
_mode(s) ==
    LET vals == {s[i] : i \in 1..Len(s)}
        count(v) == Cardinality({i \in 1..Len(s) : s[i] = v})
        top == {v \in vals : \A u \in vals : count(u) <= count(v)}
    IN  IF vals = {} THEN "None"
        ELSE CHOOSE v \in top : \A u \in top : TextRank(v) <= TextRank(u)

(* ------------------------------ KPIs ----------------------------------- *)

\* On-time % taken as the mean of the rows' own percentages.
kpis_overview_rowmean(df_filt) ==
    LET pct(r) == IF fillna0(r.circulated) > 0
                  THEN Frac((fillna0(r.circulated) - fillna0(r.late_arr_count)) * 100,
                            fillna0(r.circulated))
                  ELSE NaN
    IN  [on_time_pct |-> MeanFloats([i \in 1..Len(df_filt) |-> pct(df_filt[i])]),
         cancel_rate_pct |-> NaN,
         avg_arr_delay_delayed |-> NaN]

kpis_overview(df_filt) ==
    IF df_filt = <<>>
    THEN [on_time_pct |-> NaN, cancel_rate_pct |-> NaN, avg_arr_delay_delayed |-> NaN]
    ELSE
    LET total_planned == SumInts(Col(df_filt, "planned"))
        total_canceled == SumInts(Col(df_filt, "canceled"))
        total_circulated == SumInts(Col(df_filt, "circulated"))
        total_late_arr == SumInts(Col(df_filt, "late_arr_count"))
        w == SumInts(Col(df_filt, "late_arr_count"))
        weighted == [i \in 1..Len(df_filt) |->
                        FMul(FromInt(df_filt[i].avg_delay_arr_delayed_min),
                             Frac(fillna0(df_filt[i].late_arr_count), 1))]
    IN  [on_time_pct |->
             IF total_circulated > 0
             THEN Frac((total_circulated - total_late_arr) * 100, total_circulated)
             ELSE NaN,
         cancel_rate_pct |->
             IF total_planned > 0 THEN Frac(total_canceled * 100, total_planned) ELSE NaN,
         avg_arr_delay_delayed |->
             IF w > 0 THEN FDiv(SumFloats(weighted), Frac(w, 1)) ELSE NaN]

(* ------------------------- liaison summaries --------------------------- *)

SepBi == SP \o BIARROW \o SP
SepDir == SP \o ARROW \o SP

\* The pair columns left in file order.
_normalize_pair_cols_directed(df) ==
    [i \in 1..Len(df) |->
        [row |-> df[i], dep_norm |-> df[i].departure, arr_norm |-> df[i].arrival,
         liaison_norm |-> Concat3(df[i].departure, SepBi, df[i].arrival)]]

\* Each row with dep_norm, arr_norm and liaison_norm added.
_normalize_pair_cols(df) ==
    [i \in 1..Len(df) |->
        LET dep == df[i].departure
            arr == df[i].arrival
            left_first == StrLe(dep, arr)
            dep_norm == IF left_first THEN dep ELSE arr
            arr_norm == IF left_first THEN arr ELSE dep
        IN  [row |-> df[i], dep_norm |-> dep_norm, arr_norm |-> arr_norm,
             liaison_norm |-> Concat3(dep_norm, SepBi, arr_norm)]]

\* np.where(den > 0, num / den * 100.0, nan) on grouped integer sums.
PctWhere(num, den) == IF den > 0 THEN Frac(num * 100, den) ELSE NaN

liaison_summary(df_filt, treat_bidirectional) ==
    IF df_filt = <<>> THEN <<>>
    ELSE
    LET norm == _normalize_pair_cols(df_filt)
        key(i) == IF treat_bidirectional THEN norm[i].liaison_norm ELSE df_filt[i].liaison
        keys == SortStrs({key(i) : i \in 1..Len(df_filt)})
        RowOf(k) ==
            LET idx == {i \in 1..Len(df_filt) : key(i) = k}
                grp == SelectRowsAt(df_filt, idx)
                planned == SumInts(Col(grp, "planned"))
                canceled == SumInts(Col(grp, "canceled"))
                circulated == SumInts(Col(grp, "circulated"))
                late == SumInts(Col(grp, "late_arr_count"))
            IN  [liaison |-> k,
                 service |-> _mode(Col(grp, "service")),
                 duration_class |-> _mode(Col(grp, "duration_class")),
                 planned |-> planned,
                 canceled |-> canceled,
                 circulated |-> circulated,
                 late_arr_count |-> late,
                 on_time_pct |-> PctWhere(circulated - late, circulated),
                 cancel_rate_pct |-> PctWhere(canceled, planned),
                 late_rate_pct |-> PctWhere(late, circulated),
                 avg_delay_arr_delayed_min |->
                     MeanFloats(FloatCol(grp, "avg_delay_arr_delayed_min"))]
    IN  [j \in 1..Len(keys) |-> RowOf(keys[j])]

(* ------------------------------ causes --------------------------------- *)

_CAUSE_LABELS ==
    <<"External", "Infrastructure", "Traffic", "Rolling stock",
      "Station ops & reuse", "Passengers / PSH / connections">>

CauseIdx == 1..Len(CauseCols)

\* The pct_cause_* columns the table has: all six or, in a file without them, none.
_cause_cols_in(df) == IF df = <<>> THEN {} ELSE DOMAIN df[1].cause

\* sum over the rows at idx of cause[k].fillna(0) * weights[row]
WeightedCauseSum(df, idx, k, weights) ==
    SumFloats([i \in 1..Len(df) |->
        IF i \in idx
        THEN FMul(FillNaN0(FromInt(df[i].cause[k])), Frac(weights[i], 1))
        ELSE Frac(0, 1)])

\* Rows (group, cause, pct): the cause mix of each value of attr, weighted by
\* late_arr_count and renormalised to 100 within the group.
causes_by_attr(df_filt, attr) ==
    IF df_filt = <<>> THEN <<>>
    ELSE IF _cause_cols_in(df_filt) = {} THEN <<>>
    ELSE
    LET w(r) == fillna0(r.late_arr_count)
        groups == SortTexts({df_filt[i][attr] : i \in 1..Len(df_filt)})
        idx(g) == {i \in 1..Len(df_filt) : df_filt[i][attr] = g}
        num(g, k) == WeightedCauseSum(df_filt, idx(g), k,
                                      [i \in 1..Len(df_filt) |-> w(df_filt[i])])
        den(g) == Replace0(Frac(SumInts([i \in 1..Len(df_filt) |->
                                    IF i \in idx(g) THEN w(df_filt[i]) ELSE 0]), 1))
        comp(g, k) == FDiv(num(g, k), den(g))
        row_sum(g) == Replace0(SumFloats([k \in CauseIdx |-> comp(g, k)]))
        pct(g, k) == FMul(FDiv(comp(g, k), row_sum(g)), Frac(100, 1))
        ng == Len(groups)
    IN  [j \in 1..(Len(CauseCols) * ng) |->
            LET k == ((j - 1) \div ng) + 1
                g == groups[((j - 1) % ng) + 1]
            IN  [group |-> g, cause |-> _CAUSE_LABELS[k], pct |-> FillNaN0(pct(g, k))]]

SeverityBuckets == <<"late_over_15_count", "late_over_30_count", "late_over_60_count">>
SeverityNames == <<">=15", ">=30", ">=60">>

\* Rows (cause, bucket, pct), bucket by bucket and cause by cause.
severity_profile_by_cause(df_filt) ==
    IF df_filt = <<>> THEN <<>>
    ELSE IF _cause_cols_in(df_filt) = {} THEN <<>>
    ELSE
    LET nc == Len(CauseCols)
        all == 1..Len(df_filt)
        Entry(b, k) ==
            LET num == WeightedCauseSum(df_filt, all, k,
                           [i \in all |-> fillna0(df_filt[i][SeverityBuckets[b]])])
                den == SumInts(Col(df_filt, SeverityBuckets[b]))
                pct == IF den > 0
                       THEN FMul(FDiv(num, Frac(den, 1)), Frac(100, 1))
                       ELSE NaN
            IN  [cause |-> _CAUSE_LABELS[k], bucket |-> SeverityNames[b], pct |-> Round1(pct)]
    IN  [j \in 1..(Len(SeverityBuckets) * nc) |->
            Entry(((j - 1) \div nc) + 1, ((j - 1) % nc) + 1)]

\* An idxmax that would return the last column holding the row's maximum.
IdxMax_last(vals) ==
    LET defined == {k \in DOMAIN vals : ~IsNaN(vals[k])}
        best == {k \in defined : \A j \in defined : ~FracLt(vals[k], vals[j])}
    IN  IF defined = {} THEN 0 ELSE CHOOSE k \in best : \A j \in best : k >= j

\* wm_df.idxmax(axis=1): the first column holding the row's maximum, NaN skipped;
\* a row of NaN only has no label.
IdxMax(vals) ==
    LET defined == {k \in DOMAIN vals : ~IsNaN(vals[k])}
        best == {k \in defined : \A j \in defined : ~FracLt(vals[k], vals[j])}
    IN  IF defined = {} THEN 0 ELSE CHOOSE k \in best : \A j \in best : k <= j

\* liaison_key of one row.
liaison_key(r, treat_bidirectional) ==
    IF treat_bidirectional
    THEN IF StrLe(r.departure, r.arrival)
         THEN Concat3(r.departure, SepBi, r.arrival)
         ELSE Concat3(r.arrival, SepBi, r.departure)
    ELSE r.liaison

\* Without cause columns no dominant_cause column is made, and the column
\* selection of the return statement raises KeyError.
liaison_cause_dominance_summary_raises(df_filt) ==
    df_filt # <<>> /\ _cause_cols_in(df_filt) = {}

\* The summary, when the call does not raise.
liaison_cause_dominance_summary(df_filt, treat_bidirectional) ==
    IF df_filt = <<>> THEN <<>>
    ELSE
    LET key(i) == liaison_key(df_filt[i], treat_bidirectional)
        keys == SortStrs({key(i) : i \in 1..Len(df_filt)})
        w(r) == fillna0(r.late_arr_count)
        RowOf(k) ==
            LET idx == {i \in 1..Len(df_filt) : key(i) = k}
                grp == SelectRowsAt(df_filt, idx)
                circulated == SumInts(Col(grp, "circulated"))
                late == SumInts(Col(grp, "late_arr_count"))
                den == Replace0(Frac(SumInts([i \in 1..Len(grp) |-> w(grp[i])]), 1))
                wm == [c \in CauseIdx |->
                          FMul(FDiv(WeightedCauseSum(df_filt, idx, c,
                                        [i \in 1..Len(df_filt) |-> w(df_filt[i])]), den),
                               Frac(100, 1))]
                dom == IdxMax(wm)
            IN  [liaison |-> k,
                 on_time_pct |-> PctWhere(circulated - late, circulated),
                 avg_delay_arr_delayed_min |->
                     MeanFloats(FloatCol(grp, "avg_delay_arr_delayed_min")),
                 late_arr_count |-> late,
                 dominant_cause |-> IF dom = 0 THEN "nan" ELSE _CAUSE_LABELS[dom]]
    IN  [j \in 1..Len(keys) |-> RowOf(keys[j])]

(* -------------------------------- geo ---------------------------------- *)

\* NFD decomposition with the combining marks dropped, for the accented letters
\* of the station names used here.
Unaccent(c) ==
    CASE c = 233 -> 101
      [] c = 232 -> 101
      [] c = 201 -> 69
      [] c = 244 -> 111
      [] OTHER -> c

\* str.upper() of one character.
Upper(c) == IF c \in 97..122 THEN c - 32 ELSE c

\* " ".join(s.split()): runs of spaces collapse to one, none at the ends.
RECURSIVE Collapse(_)
Collapse(s) ==
    IF Len(s) < 2 THEN s
    ELSE IF s[1] = 32 /\ s[2] = 32 THEN Collapse(Tail(s))
    ELSE <<Head(s)>> \o Collapse(Tail(s))

_norm_name(s) ==
    LET stripped == strip(s)
        folded == [i \in 1..Len(stripped) |-> Unaccent(stripped[i])]
        replaced == [i \in 1..Len(folded) |->
                        IF folded[i] = 45 THEN 32
                        ELSE IF folded[i] = 8217 THEN 39
                        ELSE folded[i]]
        upper == [i \in 1..Len(replaced) |-> Upper(replaced[i])]
    IN  strip(Collapse(upper))

\* load_station_lookup: the rows of data/stations.csv with the join key added.
load_station_lookup(file) ==
    [i \in 1..Len(file) |->
        [station |-> file[i].station, lat |-> file[i].lat, lon |-> file[i].lon,
         key |-> _norm_name(file[i].station)]]

RECURSIVE Flatten(_)
Flatten(ss) == IF ss = <<>> THEN <<>> ELSE Head(ss) \o Flatten(Tail(ss))

\* d.merge(lut, left_on=side key, right_on="key", how="left"): one output row per
\* matching lookup row, one row of missing coordinates when there is none.
MergeCoords(d, lut, side) ==
    Flatten([i \in 1..Len(d) |->
        LET k == IF side = "dep" THEN d[i].dep_key ELSE d[i].arr_key
            m == SelectSeq(lut, LAMBDA e : e.key = k)
            With(lat, lon) ==
                IF side = "dep"
                THEN d[i] @@ [dep_lat |-> lat, dep_lon |-> lon]
                ELSE d[i] @@ [arr_lat |-> lat, arr_lon |-> lon]
        IN  IF m = <<>> THEN <<With(NA, NA)>>
            ELSE [j \in 1..Len(m) |-> With(m[j].lat, m[j].lon)]])

\* The table of attach_coords (first component of its result).
attach_coords(df, lut) ==
    IF df = <<>> \/ lut = <<>>
    THEN [i \in 1..Len(df) |->
             df[i] @@ [dep_lat |-> NA, dep_lon |-> NA, arr_lat |-> NA, arr_lon |-> NA]]
    ELSE LET d == [i \in 1..Len(df) |->
                      df[i] @@ [dep_key |-> _norm_name(df[i].departure),
                                arr_key |-> _norm_name(df[i].arrival)]]
         IN  MergeCoords(MergeCoords(d, lut, "dep"), lut, "arr")

\* GroupBy.first(): the first value of the column that is not missing.
FirstValid(s) ==
    LET ok == {i \in 1..Len(s) : s[i] # NA}
    IN  IF ok = {} THEN NA ELSE s[CHOOSE i \in ok : \A j \in ok : i <= j]

\* One row per directed liaison that has all four coordinates (the colour and
\* width styling columns are left out).
build_edges(df_filt) ==
    IF df_filt = <<>> THEN <<>>
    ELSE
    LET keys == SortStrs({df_filt[i].liaison : i \in 1..Len(df_filt)})
        RowOf(k) ==
            LET grp == SelectRowsAt(df_filt, {i \in 1..Len(df_filt) : df_filt[i].liaison = k})
                planned == SumInts(Col(grp, "planned"))
                canceled == SumInts(Col(grp, "canceled"))
                circulated == SumInts(Col(grp, "circulated"))
                late_arr == SumInts(Col(grp, "late_arr_count"))
            IN  [liaison |-> k,
                 dep_lon |-> FirstValid(Col(grp, "dep_lon")),
                 dep_lat |-> FirstValid(Col(grp, "dep_lat")),
                 arr_lon |-> FirstValid(Col(grp, "arr_lon")),
                 arr_lat |-> FirstValid(Col(grp, "arr_lat")),
                 on_time_pct |-> PctWhere(circulated - late_arr, circulated),
                 cancel_rate_pct |-> PctWhere(canceled, planned),
                 severe_15_count |-> SumInts(Col(grp, "late_over_15_count")),
                 circulated |-> circulated,
                 avg_delay_arr_delayed_min |->
                     MeanFloats(FloatCol(grp, "avg_delay_arr_delayed_min"))]
        all == [j \in 1..Len(keys) |-> RowOf(keys[j])]
    IN  SelectSeq(all, LAMBDA e : e.dep_lat # NA /\ e.dep_lon # NA
                                  /\ e.arr_lat # NA /\ e.arr_lon # NA)

\* _split_liaison: the two names read back from a liaison text. A liaison built
\* by clean() always holds an arrow, so the "->" and " - " separators are never
\* reached.
_split_liaison(text) ==
    LET s == strip(text)
        parts == IF Contains(s, 8596) THEN Split1(s, 8596)
                 ELSE IF Contains(s, 8594) THEN Split1(s, 8594)
                 ELSE <<s, <<>>>>
    IN  <<strip(parts[1]), strip(parts[2])>>

StrMin(a, b) == IF StrLe(a, b) THEN a ELSE b
StrMax(a, b) == IF StrLe(a, b) THEN b ELSE a

PairLe(p, q) == StrLt(p[1], q[1]) \/ (p[1] = q[1] /\ StrLe(p[2], q[2]))

RECURSIVE SortPairs(_)
SortPairs(S) ==
    IF S = {} THEN <<>>
    ELSE LET m == CHOOSE x \in S : \A y \in S : PairLe(x, y)
         IN  <<m>> \o SortPairs(S \ {m})

\* The (min, max) names under which _merge_bidirectional_edges groups an edge.
EdgePair(e) ==
    LET names == _split_liaison(e.liaison)
    IN  <<StrMin(names[1], names[2]), StrMax(names[1], names[2])>>

\* wavg(col) of _row_from_group: the mean of col weighted by circulated; the
\* plain mean of the defined values when the weights sum to 0.
wavg(vals, w) ==
    LET w_sum == SumInts(w)
    IN  IF CountDefined(vals) > 0 /\ w_sum > 0
        THEN FDiv(SumFloats([i \in 1..Len(vals) |->
                                FMul(FillNaN0(vals[i]), Frac(fillna0(w[i]), 1))]),
                  Frac(w_sum, 1))
        ELSE MeanFloats(vals)

\* loc.get(sta): the coordinates of the lookup row whose station is exactly sta
\* (station names are unique in the lookups drawn here).
LocOf(lut, sta, field) ==
    LET hit == {i \in 1..Len(lut) : lut[i].station = sta}
    IN  IF hit = {} THEN NA ELSE lut[CHOOSE i \in hit : TRUE][field]

_merge_bidirectional_edges(edges, lut) ==
    IF edges = <<>> THEN edges
    ELSE
    LET pairs == SortPairs({EdgePair(edges[i]) : i \in 1..Len(edges)})
        RowOf(p) ==
            LET g == SelectRowsAt(edges, {i \in 1..Len(edges) : EdgePair(edges[i]) = p})
                first == _split_liaison(g[1].liaison)
                sta_min == StrMin(first[1], first[2])
                sta_max == StrMax(first[1], first[2])
                w == Col(g, "circulated")
            IN  [liaison |-> Concat3(sta_min, SepBi, sta_max),
                 dep_lat |-> LocOf(lut, sta_min, "lat"),
                 dep_lon |-> LocOf(lut, sta_min, "lon"),
                 arr_lat |-> LocOf(lut, sta_max, "lat"),
                 arr_lon |-> LocOf(lut, sta_max, "lon"),
                 circulated |-> SumInts(w),
                 severe_15_count |-> SumInts(Col(g, "severe_15_count")),
                 on_time_pct |-> wavg(Col(g, "on_time_pct"), w),
                 cancel_rate_pct |-> wavg(Col(g, "cancel_rate_pct"), w),
                 distance_km |-> NaN]
    IN  [j \in 1..Len(pairs) |-> RowOf(pairs[j])]

\* The edges of the Geo View page: coordinates joined, edges built, and merged
\* by undirected pair when treat_bidirectional is on.
GeoEdges(dff_, file, treat_bi) ==
    LET lut_ == load_station_lookup(file)
        edges == build_edges(attach_coords(dff_, lut_))
    IN  IF treat_bi THEN _merge_bidirectional_edges(edges, lut_) ELSE edges

(* ------------------------- time series and ranking --------------------- *)

\* The months of a table, sorted; groupby leaves out the rows without a date.
MonthsOf(df) == SortInts({df[i].date : i \in 1..Len(df)} \ {NA})

monthly_series(df_filt) ==
    IF df_filt = <<>> THEN <<>>
    ELSE
    LET months == MonthsOf(df_filt)
        RowOf(m) ==
            LET grp == SelectRowsAt(df_filt, {i \in 1..Len(df_filt) : df_filt[i].date = m})
                planned == SumInts(Col(grp, "planned"))
                canceled == SumInts(Col(grp, "canceled"))
                circulated == SumInts(Col(grp, "circulated"))
                late_arr == SumInts(Col(grp, "late_arr_count"))
            IN  [date |-> m,
                 on_time_pct |-> PctWhere(circulated - late_arr, circulated),
                 cancel_rate_pct |-> PctWhere(canceled, planned)]
    IN  [j \in 1..Len(months) |-> RowOf(months[j])]

duration_small_multiples(df_filt) ==
    IF df_filt = <<>> THEN <<>>
    ELSE
    LET months == MonthsOf(df_filt)
        ClassesOf(m) ==
            SortTexts({df_filt[i].duration_class : i \in {k \in 1..Len(df_filt) : df_filt[k].date = m}})
        RowOf(m, c) ==
            LET grp == SelectRowsAt(df_filt, {i \in 1..Len(df_filt) :
                                        df_filt[i].date = m /\ df_filt[i].duration_class = c})
                circulated == SumInts(Col(grp, "circulated"))
                late_arr == SumInts(Col(grp, "late_arr_count"))
            IN  [date |-> m, duration_class |-> c,
                 on_time_pct |-> PctWhere(circulated - late_arr, circulated)]
    IN  Flatten([j \in 1..Len(months) |->
            [k \in 1..Len(ClassesOf(months[j])) |-> RowOf(months[j], ClassesOf(months[j])[k])]])

\* metric_map.get(metric, "on_time_pct")
RankingColumn(metric) ==
    CASE metric = "Avg arrival delay (delayed trains)" -> "avg_delay_arr_delayed_min"
      [] metric = "Cancel rate %" -> "cancel_rate_pct"
      [] OTHER -> "on_time_pct"

\* Row i comes before row j in sort_values(col, ascending): NaN last, equal
\* values in the order they have in rows.  (The default sort kind sorts tables
\* of up to 16 rows by insertion, which keeps equal values in place.)
SortsBefore(rows, col, ascending, i, j) ==
    LET a == rows[i][col]
        b == rows[j][col]
    IN  IF IsNaN(a) /\ IsNaN(b) THEN i < j
        ELSE IF IsNaN(a) THEN FALSE
        ELSE IF IsNaN(b) THEN TRUE
        ELSE IF FracSame(a, b) THEN i < j
        ELSE IF ascending THEN FracLt(a, b) ELSE FracLt(b, a)

\* A sort in the opposite direction.
sort_values_reversed(rows, col, ascending) ==
    LET n == Len(rows)
        Pos(j) == 1 + Cardinality({i \in 1..n : i # j /\ SortsBefore(rows, col, ~ascending, i, j)})
    IN  [p \in 1..n |-> rows[CHOOSE j \in 1..n : Pos(j) = p]]

\* rows.sort_values(col, ascending=ascending) on a float column.
sort_values(rows, col, ascending) ==
    LET n == Len(rows)
        Pos(j) == 1 + Cardinality({i \in 1..n : i # j /\ SortsBefore(rows, col, ascending, i, j)})
    IN  [p \in 1..n |-> rows[CHOOSE j \in 1..n : Pos(j) = p]]

\* DataFrame.head(n) and DataFrame.tail(n)
head(rows, n) == SubSeq(rows, 1, IF Len(rows) < n THEN Len(rows) ELSE n)
tail(rows, n) == SubSeq(rows, IF Len(rows) < n THEN 1 ELSE Len(rows) - n + 1, Len(rows))

\* The pair (top, bottom) of liaison_ranking.
liaison_ranking(df_filt, metric, treat_bidirectional, top_n) ==
    IF df_filt = <<>> THEN [top |-> <<>>, bottom |-> <<>>]
    ELSE
    LET norm == _normalize_pair_cols(df_filt)
        key(i) == IF treat_bidirectional THEN norm[i].liaison_norm ELSE df_filt[i].liaison
        keys == SortStrs({key(i) : i \in 1..Len(df_filt)})
        col == RankingColumn(metric)
        RowOf(k) ==
            LET grp == SelectRowsAt(df_filt, {i \in 1..Len(df_filt) : key(i) = k})
                planned == SumInts(Col(grp, "planned"))
                canceled == SumInts(Col(grp, "canceled"))
                circulated == SumInts(Col(grp, "circulated"))
                late_arr == SumInts(Col(grp, "late_arr_count"))
            IN  [liaison |-> k,
                 planned |-> planned,
                 canceled |-> canceled,
                 circulated |-> circulated,
                 late_arr |-> late_arr,
                 avg_delay_arr_delayed_min |->
                     MeanFloats(FloatCol(grp, "avg_delay_arr_delayed_min")),
                 on_time_pct |-> PctWhere(circulated - late_arr, circulated),
                 cancel_rate_pct |-> PctWhere(canceled, planned)]
        g == sort_values([j \in 1..Len(keys) |-> RowOf(keys[j])], col, col # "on_time_pct")
        ranked == [j \in 1..Len(g) |-> g[j] @@ [rank_metric |-> g[j][col]]]
    IN  [top |-> head(ranked, top_n), bottom |-> tail(ranked, top_n)]

(* ------------------- cause mix, severe counts, stations ---------------- *)

\* label_map of causes_composition
CompositionLabels ==
    <<"External", "Infrastructure", "Traffic management", "Rolling stock",
      "Station ops & reuse", "Passengers / PSH / connections">>

\* The group of a row: its month, or its liaison.
GroupOf(r, breakdown) == IF breakdown = "Month" THEN r.date ELSE r.liaison

\* The group keys in groupby order.
GroupsOf(df, breakdown) ==
    IF breakdown = "Month" THEN MonthsOf(df)
    ELSE SortStrs({df[i].liaison : i \in 1..Len(df)})

\* groupby("_group")["circulated"].sum().sort_values(ascending=False): the groups
\* by decreasing volume, equal volumes in groupby order.
VolumeOrder(df, breakdown) ==
    LET groups == GroupsOf(df, breakdown)
        vol == [j \in 1..Len(groups) |->
                   [group |-> groups[j],
                    volume |-> Frac(SumInts(Col(SelectRowsAt(df,
                                  {i \in 1..Len(df) : GroupOf(df[i], breakdown) = groups[j]}),
                                  "circulated")), 1)]]
        sorted == sort_values(vol, "volume", FALSE)
    IN  [j \in 1..Len(sorted) |-> sorted[j].group]

\* Rows (group, cause, pct): the late_arr_count-weighted mean share of each cause
\* per month or per liaison.  top_n is None or Some(n).
causes_composition(df_filt, breakdown, top_n) ==
    IF df_filt = <<>> THEN <<>>
    ELSE IF _cause_cols_in(df_filt) = {} THEN <<>>
    ELSE
    LET w == [i \in 1..Len(df_filt) |-> fillna0(df_filt[i].late_arr_count)]
        idx(g) == {i \in 1..Len(df_filt) : GroupOf(df_filt[i], breakdown) = g}
        den(g) == Replace0(Frac(SumInts([i \in 1..Len(df_filt) |->
                                    IF i \in idx(g) THEN w[i] ELSE 0]), 1))
        pct(g, k) == FDiv(WeightedCauseSum(df_filt, idx(g), k, w), den(g))
        volume == VolumeOrder(df_filt, breakdown)
        groups == IF breakdown = "Month" THEN GroupsOf(df_filt, breakdown)
                  ELSE IF top_n = None THEN volume
                  ELSE head(volume, top_n[1])
        ng == Len(groups)
        nc == Len(CauseCols)
    IN  IF breakdown = "Month"
        THEN [j \in 1..(nc * ng) |->
                 LET k == ((j - 1) \div ng) + 1
                     g == groups[((j - 1) % ng) + 1]
                 IN  [group |-> g, cause |-> CompositionLabels[k], pct |-> pct(g, k)]]
        ELSE [j \in 1..(nc * ng) |->
                 LET g == groups[((j - 1) \div nc) + 1]
                     k == ((j - 1) % nc) + 1
                 IN  [group |-> g, cause |-> CompositionLabels[k], pct |-> pct(g, k)]]

\* The pivot without the renormalisation of each month to 100.
causes_pivot_monthly_plain(df_filt) ==
    IF df_filt = <<>> THEN <<>>
    ELSE IF _cause_cols_in(df_filt) = {} THEN <<>>
    ELSE
    LET w == [i \in 1..Len(df_filt) |-> fillna0(df_filt[i].late_arr_count)]
        months == MonthsOf(df_filt)
        idx(m) == {i \in 1..Len(df_filt) : df_filt[i].date = m}
        den(m) == Replace0(Frac(SumInts([i \in 1..Len(df_filt) |->
                                    IF i \in idx(m) THEN w[i] ELSE 0]), 1))
        comp(m, k) == FDiv(WeightedCauseSum(df_filt, idx(m), k, w), den(m))
    IN  [j \in 1..Len(months) |->
            [month |-> months[j], shares |-> [k \in CauseIdx |-> comp(months[j], k)]]]

\* One row per month: the month and its six cause shares renormalised to 100.
causes_pivot_monthly(df_filt) ==
    IF df_filt = <<>> THEN <<>>
    ELSE IF _cause_cols_in(df_filt) = {} THEN <<>>
    ELSE
    LET w == [i \in 1..Len(df_filt) |-> fillna0(df_filt[i].late_arr_count)]
        months == MonthsOf(df_filt)
        idx(m) == {i \in 1..Len(df_filt) : df_filt[i].date = m}
        den(m) == Replace0(Frac(SumInts([i \in 1..Len(df_filt) |->
                                    IF i \in idx(m) THEN w[i] ELSE 0]), 1))
        comp(m, k) == FDiv(WeightedCauseSum(df_filt, idx(m), k, w), den(m))
        row_sum(m) == Replace0(SumFloats([k \in CauseIdx |-> comp(m, k)]))
    IN  [j \in 1..Len(months) |->
            [month |-> months[j],
             shares |-> [k \in CauseIdx |->
                            FMul(FDiv(comp(months[j], k), row_sum(months[j])), Frac(100, 1))]]]

\* col_map.get(bucket)
SevereColumn(bucket) ==
    CASE bucket = ">=15" -> "late_over_15_count"
      [] bucket = ">=30" -> "late_over_30_count"
      [] bucket = ">=60" -> "late_over_60_count"
      [] OTHER -> "None"

\* Rows (group, count) by decreasing count.  top_n is None or Some(n).
severe_counts(df_filt, breakdown, bucket, top_n) ==
    IF df_filt = <<>> THEN <<>>
    ELSE IF SevereColumn(bucket) = "None" THEN <<>>
    ELSE
    LET groups == GroupsOf(df_filt, breakdown)
        g == [j \in 1..Len(groups) |->
                 [group |-> groups[j],
                  count |-> Frac(SumInts(Col(SelectRowsAt(df_filt,
                                {i \in 1..Len(df_filt) :
                                    GroupOf(df_filt[i], breakdown) = groups[j]}),
                                SevereColumn(bucket))), 1)]]
        keep == IF breakdown = "Liaison" /\ top_n # None
                THEN {VolumeOrder(df_filt, breakdown)[j] :
                         j \in 1..(IF Len(groups) < top_n[1] THEN Len(groups) ELSE top_n[1])}
                ELSE {groups[j] : j \in 1..Len(groups)}
    IN  sort_values(SelectSeq(g, LAMBDA r : r.group \in keep), "count", FALSE)

\* station_metrics keeping only the records located at both ends.
station_metrics_bothends(df_with_coords) ==
    LET d == SelectSeq(df_with_coords, LAMBDA r : r.dep_lat # NA /\ r.arr_lat # NA)
        dep == [i \in 1..Len(d) |->
                   [station |-> d[i].departure, lat |-> d[i].dep_lat, lon |-> d[i].dep_lon,
                    circulated |-> d[i].circulated, late_arr_count |-> d[i].late_arr_count]]
        arr == [i \in 1..Len(d) |->
                   [station |-> d[i].arrival, lat |-> d[i].arr_lat, lon |-> d[i].arr_lon,
                    circulated |-> d[i].circulated, late_arr_count |-> d[i].late_arr_count]]
        long == dep \o arr
        keys == {<<long[i].station, long[i].lat, long[i].lon>> : i \in 1..Len(long)}
    IN  [j \in 1..Len(SortStrs({k[1] : k \in keys})) |->
            LET s == SortStrs({k[1] : k \in keys})[j]
                grp == SelectSeq(long, LAMBDA r : r.station = s)
            IN  [station |-> s, lat |-> grp[1].lat, lon |-> grp[1].lon,
                 circulated |-> SumInts(Col(grp, "circulated")),
                 late_arr_count |-> SumInts(Col(grp, "late_arr_count")),
                 late_rate_pct |-> NaN, on_time_pct |-> NaN]]

\* Station rows (station, lat, lon) with the circulated and late counts of the
\* rows that leave from or arrive at the station, and the two rates.
station_metrics(df_with_coords) ==
    IF df_with_coords = <<>> THEN <<>>
    ELSE
    LET d == df_with_coords
        dep == [i \in 1..Len(d) |->
                   [station |-> d[i].departure, lat |-> d[i].dep_lat, lon |-> d[i].dep_lon,
                    circulated |-> d[i].circulated, late_arr_count |-> d[i].late_arr_count]]
        arr == [i \in 1..Len(d) |->
                   [station |-> d[i].arrival, lat |-> d[i].arr_lat, lon |-> d[i].arr_lon,
                    circulated |-> d[i].circulated, late_arr_count |-> d[i].late_arr_count]]
        long == SelectSeq(dep \o arr, LAMBDA r : r.lat # NA /\ r.lon # NA)
        names == SortStrs({long[i].station : i \in 1..Len(long)})
        places(s) == SortPairs({<<<<long[i].lat>>, <<long[i].lon>>>> :
                                   i \in {k \in 1..Len(long) : long[k].station = s}})
        RowOf(s, p) ==
            LET grp == SelectSeq(long, LAMBDA r : r.station = s /\ r.lat = p[1][1]
                                                  /\ r.lon = p[2][1])
                circulated == SumInts(Col(grp, "circulated"))
                late == SumInts(Col(grp, "late_arr_count"))
                late_rate == PctWhere(late, circulated)
            IN  [station |-> s, lat |-> p[1][1], lon |-> p[2][1],
                 circulated |-> circulated, late_arr_count |-> late,
                 late_rate_pct |-> late_rate,
                 on_time_pct |-> FAdd(Frac(100, 1), FMul(Frac(-1, 1), late_rate))]
    IN  Flatten([j \in 1..Len(names) |->
            [k \in 1..Len(places(names[j])) |-> RowOf(names[j], places(names[j])[k])]])

(* ------------------------------ state ---------------------------------- *)

VARIABLES
    csv_file,     \* data/regularite-mensuelle-tgv-aqst.csv: [exists, rows]
    parquet,      \* data/tgv_punctualite_clean.parquet: [exists, readable, cols]
    loaded,       \* "df_clean" in st.session_state
    df_clean,     \* st.session_state.df_clean, the canonical table
    catalog,      \* st.session_state.filters_catalog
    session,      \* the filter keys of st.session_state
    dff,          \* the filtered table of the last page run
    view,         \* the tables the last page run computed
    phase,        \* where the script run stands
    stations      \* data/stations.csv: rows (station, lat, lon)

vars == <<csv_file, parquet, loaded, df_clean, catalog, session, dff, view, phase, stations>>

(* ------------------------- inputs drawn at Init ------------------------ *)

StA == <<65>>
StB == <<66>>
StC == <<67>>

NoCauses == [k \in 1..6 |-> 0]

\* A raw CSV row (after the column rename), with unremarkable values.
BaseRaw ==
    [date |-> <<2020, 1>>, service |-> "National", departure |-> StA, arrival |-> StB,
     avg_duration_min |-> 60, planned |-> 10, canceled |-> 0, late_arr_count |-> 1,
     late_over_15_count |-> 1, late_over_30_count |-> 0, late_over_60_count |-> 0,
     avg_delay_arr_delayed_min |-> 20, avg_delay_arr_all_min |-> 2,
     cause |-> NoCauses]

\* All non-empty sequences over pool of length at most n.
RECURSIVE SeqsUpTo(_, _)
SeqsUpTo(pool, n) ==
    IF n = 0 THEN {<<>>}
    ELSE LET shorter == SeqsUpTo(pool, n - 1)
         IN  shorter \cup {Append(t, r) : t \in shorter, r \in pool}

TablesUpTo(pool, n) == SeqsUpTo(pool, n) \ {<<>>}


\* A session holding date_start, date_end and the optional keys that are given.
MkSession(ds, de, sv, dc, dp, ar, bi) ==
    LET keys == {"date_start", "date_end"}
                \cup (IF sv # None THEN {"service"} ELSE {})
                \cup (IF dc # None THEN {"duration_class"} ELSE {})
                \cup (IF dp # None THEN {"departures"} ELSE {})
                \cup (IF ar # None THEN {"arrivals"} ELSE {})
                \cup (IF bi # None THEN {"treat_bidirectional"} ELSE {})
    IN  [k \in keys |->
            CASE k = "date_start" -> ds
              [] k = "date_end" -> de
              [] k = "service" -> sv[1]
              [] k = "duration_class" -> dc[1]
              [] k = "departures" -> dp[1]
              [] k = "arrivals" -> ar[1]
              [] k = "treat_bidirectional" -> bi[1]]

\* whole records whether the bytes on disk are the whole source file (for the
\* cache: whether it was written from one); no code reads it.
NoFile == [exists |-> FALSE, rows |-> <<>>, whole |-> FALSE]
NoParquet == [exists |-> FALSE, readable |-> FALSE, cols |-> <<>>, whole |-> FALSE]
NoCatalog == filter_values(<<>>)
NoView == [op |-> "none"]

\* data/stations.csv with the three stations of the tables drawn here.
StationsFile ==
    << [station |-> StA, lat |-> 1, lon |-> 1],
       [station |-> StB, lat |-> 2, lon |-> 2],
       [station |-> StC, lat |-> 3, lon |-> 3] >>

(* ----------------------- the filter specification ---------------------- *)

FilterPool ==
    { [BaseRaw EXCEPT !.date = <<2019, 12>>],
      [BaseRaw EXCEPT !.date = <<2020, 1>>, !.service = "International",
                      !.departure = StB, !.arrival = StA, !.avg_duration_min = 120],
      [BaseRaw EXCEPT !.date = <<>>, !.departure = StA, !.arrival = StA],
      [BaseRaw EXCEPT !.date = <<2020, 1>>, !.departure = StB, !.arrival = StB,
                      !.avg_duration_min = 200],
      [BaseRaw EXCEPT !.date = <<2020, 2>>, !.departure = StB, !.arrival = StC] }

FilterMonths == {<<2019, 12>>, <<2020, 1>>, <<2020, 2>>}
FilterStationSets == {None, Some({}), Some({StA}), Some({StB})}

FilterSessions ==
    { MkSession(ds, de, sv, dc, dp, ar, bi) :
        ds \in FilterMonths, de \in FilterMonths,
        sv \in {None, Some({}), Some({"National"})},
        dc \in {None, Some({"< 1h30"})},
        dp \in FilterStationSets, ar \in FilterStationSets,
        bi \in {None, Some(TRUE), Some(FALSE)} }

InitFilter ==
    /\ csv_file = NoFile
    /\ parquet = NoParquet
    /\ loaded = TRUE
    /\ \E raw \in TablesUpTo(FilterPool, MaxFilterRows) :
          /\ df_clean = clean(raw)
          /\ catalog = filter_values(clean(raw))
    /\ session \in FilterSessions
    /\ dff = <<>>
    /\ view = NoView
    /\ phase = "input"
    /\ stations = StationsFile

\* A page's call dff = apply_overview_filters(df, st.session_state).
ApplyFilters ==
    /\ phase = "input"
    /\ dff' = apply_overview_filters(df_clean, session)
    /\ view' = [op |-> "filter"]
    /\ phase' = "done"
    /\ UNCHANGED <<csv_file, parquet, loaded, df_clean, catalog, session, stations>>

NextFilter == ApplyFilters

SpecFilter == InitFilter /\ [][NextFilter]_vars

(* --------------------------- the session ------------------------------- *)

\* The columns of the canonical table (the index is not a column).
Columns ==
    {"date", "service", "departure", "arrival", "avg_duration_min", "planned", "canceled",
     "late_arr_count", "late_over_15_count", "late_over_30_count", "late_over_60_count",
     "avg_delay_arr_delayed_min", "avg_delay_arr_all_min", "cause", "liaison",
     "duration_class", "circulated", "cancel_rate_pct", "check_late_chain_ok",
     "check_bounds"}

\* df.to_parquet(p, index=False): the table stored column by column, without its index.
to_parquet(df) == [c \in Columns |-> [i \in 1..Len(df) |-> df[i][c]]]

\* pd.read_parquet(p): the rows rebuilt from the columns, under a fresh RangeIndex.
read_parquet(cols) ==
    [i \in 1..Len(cols["date"]) |->
        [c \in Columns \cup {"row_id"} |-> IF c = "row_id" THEN i ELSE cols[c][i]]]

\* dict assignment session[key] = value
Put(sess, key, value) ==
    [k \in DOMAIN sess \cup {key} |-> IF k = key THEN value ELSE sess[k]]

\* session.setdefault(key, value)
SetDefault(sess, key, value) == IF key \in DOMAIN sess THEN sess ELSE Put(sess, key, value)

AllServices == {"National", "International"}
AllDurationClasses == {"< 1h30", "1h30-3h", "> 3h"}

\* init_state(): the defaults of the shared filter keys.
init_state(sess) ==
    SetDefault(SetDefault(SetDefault(sess, "service", AllServices),
                          "treat_bidirectional", TRUE),
               "duration_class", AllDurationClasses)

\* The end of the load block of app.py: the default date range from the catalog.
DefaultDates(sess, cat) ==
    IF ("date_start" \notin DOMAIN sess \/ "date_end" \notin DOMAIN sess)
       /\ cat.date_options # <<>>
    THEN Put(Put(sess, "date_start", cat.date_options[1]),
             "date_end", cat.date_options[Len(cat.date_options)])
    ELSE sess

\* snap_to_month with a tie between two months resolved to the later one.
snap_to_month_later(months_dt, d) ==
    LET i == Cardinality({k \in 1..Len(months_dt) : months_dt[k] < d})
    IN  IF i <= 0 THEN months_dt[1]
        ELSE IF i >= Len(months_dt) THEN months_dt[Len(months_dt)]
        ELSE LET before == months_dt[i]
                 after == months_dt[i + 1]
             IN  IF d - before < after - d THEN before ELSE after

\* snap_to_month(d) of _date_range_slider, months_dt sorted ascending; dates are
\* day numbers.
snap_to_month(months_dt, d) ==
    LET i == Cardinality({k \in 1..Len(months_dt) : months_dt[k] < d})
    IN  IF i <= 0 THEN months_dt[1]
        ELSE IF i >= Len(months_dt) THEN months_dt[Len(months_dt)]
        ELSE LET before == months_dt[i]
                 after == months_dt[i + 1]
             IN  IF d - before <= after - d THEN before ELSE after

\* _date_range_slider: user_sel is the value the user left the slider at; typed is
\* what the fallback text inputs hold.
_date_range_slider(sess, cat, user_sel, typed) ==
    LET months_str == cat.date_options
    IN  IF months_str # <<>>
        THEN LET months_dt == [i \in 1..Len(months_str) |-> ToDate(ToTimestamp(months_str[i]))]
                 InOpts(x) == \E i \in 1..Len(months_str) : months_str[i] = x
                 start0 == Get(sess, "date_start", months_str[1])
                 end0 == Get(sess, "date_end", months_str[Len(months_str)])
                 start_s == IF InOpts(start0) THEN start0 ELSE months_str[1]
                 end_s == IF InOpts(end0) THEN end0 ELSE months_str[Len(months_str)]
                 sel == IF "date_range_dt" \notin DOMAIN sess
                        THEN <<ToDate(ToTimestamp(start_s)), ToDate(ToTimestamp(end_s))>>
                        ELSE user_sel
                 start_dt == snap_to_month(months_dt, sel[1])
                 end_dt == snap_to_month(months_dt, sel[2])
             IN  Put(Put(Put(sess, "date_range_dt", sel),
                         "date_start", StrftimeDate(start_dt)),
                     "date_end", StrftimeDate(end_dt))
        ELSE Put(Put(sess, "date_start", typed[1]), "date_end", typed[2])

\* _stateful_multiselect_service / _duration: the selection clamped to the options,
\* an empty one replaced by all options.
ClampSelection(sess, key, options) ==
    LET current == IF key \in DOMAIN sess THEN sess[key] \cap options ELSE options
    IN  Put(sess, key, IF current = {} THEN options ELSE current)

\* The widgets a page's sidebar instantiates beside the date slider.
Widgets(page) ==
    CASE page = "overview" -> {"service", "duration_class"}
      [] page = "routes" -> {"service", "treat_bidirectional", "departures", "arrivals"}
      [] page = "causes" -> {"service", "duration_class"}
      [] page = "geo" -> {"service", "treat_bidirectional", "departures", "arrivals"}
      [] page = "quality" -> {}

\* The sidebar of a page, run on the session as the user's last interaction left it.
Sidebar(page, sess0, cat) ==
    LET widgets == Widgets(page)
        s1 == _date_range_slider(sess0, cat, Get(sess0, "date_range_dt", <<0, 0>>),
                                 <<<<>>, <<>>>>)
        s2 == IF "service" \in widgets THEN ClampSelection(s1, "service", cat.services) ELSE s1
        s3 == IF "duration_class" \in widgets
              THEN ClampSelection(s2, "duration_class", cat.duration_classes) ELSE s2
        s4 == IF "treat_bidirectional" \in widgets
              THEN SetDefault(s3, "treat_bidirectional", FALSE) ELSE s3
        s5 == IF "departures" \in widgets
              THEN SetDefault(SetDefault(s4, "departures", {}), "arrivals", {}) ELSE s4
    IN  s5

\* A page that filters the session's table in place.
TableAfterPage_inplace(df, filtered) == filtered

\* What a page run leaves in st.session_state.df_clean: the table it read.  The page
\* filters a copy (df.loc[mask].copy()) and assigns nothing back.
TableAfterPage(df, filtered) == df

(* ---------------------- the session specification ---------------------- *)

\* Longest raw source file of the session specification.
MaxSessionRows == 2

SessionPool ==
    { [BaseRaw EXCEPT !.date = <<2019, 12>>, !.planned = 10, !.canceled = NA],
      [BaseRaw EXCEPT !.date = <<2020, 2>>, !.service = "International",
                      !.departure = StB, !.arrival = StA,
                      !.planned = NA, !.canceled = 2],
      [BaseRaw EXCEPT !.date = <<2020, 2>>, !.planned = 3, !.canceled = 5,
                      !.avg_duration_min = 120],
      [BaseRaw EXCEPT !.date = <<2020, 13>>, !.planned = BadToken, !.canceled = NA] }

SourceTables == TablesUpTo(SessionPool, MaxSessionRows)

\* The prefixes a download cut short can leave on disk.
Prefixes(rows) == {SubSeq(rows, 1, n) : n \in 0..(Len(rows) - 1)}

Pages == {"overview", "routes", "causes", "geo", "quality"}

Init ==
    /\ csv_file \in {NoFile} \cup {[exists |-> TRUE, rows |-> t, whole |-> TRUE] : t \in SourceTables}
    /\ parquet = NoParquet
    /\ loaded = FALSE
    /\ df_clean = <<>>
    /\ catalog = NoCatalog
    /\ session = [k \in {} |-> {}]
    /\ dff = <<>>
    /\ view = NoView
    /\ phase = "idle"
    /\ stations = StationsFile

\* The state after `st.session_state.df_clean = df_clean` and the two statements
\* that follow it in app.py.
StoreTable(df, path) ==
    /\ loaded' = TRUE
    /\ df_clean' = df
    /\ catalog' = filter_values(df)
    /\ session' = DefaultDates(init_state(session), filter_values(df))
    /\ view' = [op |-> "load", path |-> path]
    /\ phase' = "page"

\* The script stops (st.stop() or an uncaught exception) before the table is stored.
StopLoad(why) ==
    /\ session' = init_state(session)
    /\ view' = [op |-> "stopped", why |-> why]
    /\ phase' = "idle"
    /\ UNCHANGED <<loaded, df_clean, catalog>>

\* load_csv_semicolon, clean, write_parquet and the store, from a source file.
\* write is the outcome of write_parquet: "ok", or "fail" (a warning, no cache).
LoadCsv(file, write) ==
    IF file.rows = <<>> THEN StopLoad("csv") /\ UNCHANGED parquet
    ELSE IF CleanRaises(file.rows) THEN StopLoad("clean") /\ UNCHANGED parquet
    ELSE /\ StoreTable(clean(file.rows), "csv")
         /\ parquet' = IF write = "ok"
                       THEN [exists |-> TRUE, readable |-> TRUE,
                             cols |-> to_parquet(clean(file.rows)),
                             whole |-> file.whole]
                       ELSE parquet

\* app.py, the cache branch: the parquet file exists and is read.
AppLoadCache ==
    /\ phase = "idle" /\ ~loaded
    /\ parquet.exists /\ parquet.readable
    /\ StoreTable(read_parquet(parquet.cols), "cache")
    /\ UNCHANGED <<csv_file, parquet, dff, stations>>

\* app.py, the CSV branch with the source file on disk.
AppLoadCsv ==
    /\ phase = "idle" /\ ~loaded
    /\ ~(parquet.exists /\ parquet.readable)
    /\ csv_file.exists
    /\ \E write \in {"ok", "fail"} : LoadCsv(csv_file, write)
    /\ UNCHANGED <<csv_file, dff, stations>>

\* app.py, the CSV branch with the source file missing: download_and_save, then the
\* load when a file is there.  The download delivers the whole file, nothing, or
\* (the stream breaking after open()) a prefix of it.
AppDownload ==
    /\ phase = "idle" /\ ~loaded
    /\ ~(parquet.exists /\ parquet.readable)
    /\ ~csv_file.exists
    /\ \E remote \in SourceTables, write \in {"ok", "fail"} :
          \/ /\ csv_file' = [exists |-> TRUE, rows |-> remote, whole |-> TRUE]
             /\ LoadCsv(csv_file', write)
          \/ /\ csv_file' = csv_file
             /\ StopLoad("download") /\ UNCHANGED parquet
          \/ \E part \in Prefixes(remote) :
                /\ csv_file' = [exists |-> TRUE, rows |-> part, whole |-> FALSE]
                /\ LoadCsv(csv_file', write)
    /\ UNCHANGED <<dff, stations>>

\* The positions of the date slider taken here: pairs of first days of a month
\* within the catalog's range.
SliderChoices(cat) ==
    LET ts == {ToTimestamp(cat.date_options[i]) : i \in 1..Len(cat.date_options)}
    IN  IF ts = {} THEN {}
        ELSE LET lo == CHOOSE x \in ts : \A y \in ts : x <= y
                 hi == CHOOSE x \in ts : \A y \in ts : x >= y
             IN  {<<ToDate(a), ToDate(b)>> : <<a, b>> \in {p \in (lo..hi) \X (lo..hi) : p[1] <= p[2]}}

\* Every position of the date slider: its step is one day.
SliderDays(cat) ==
    LET ds == {ToDate(ToTimestamp(cat.date_options[i])) : i \in 1..Len(cat.date_options)}
    IN  IF ds = {} THEN {}
        ELSE LET lo == CHOOSE x \in ds : \A y \in ds : x <= y
                 hi == CHOOSE x \in ds : \A y \in ds : x >= y
             IN  {p \in (lo..hi) \X (lo..hi) : p[1] <= p[2]}

\* The session after the one interaction that triggers a rerun of the page.  The
\* user navigates to the page and touches nothing, or, the page being the one on
\* display, sets one of its widgets or moves the slider.
AfterInteraction(page, sess, cat, current) ==
    IF current # page THEN {sess} ELSE
    LET w == Widgets(page)
        Sets(key, values) == IF key \in w THEN {Put(sess, key, v) : v \in values} ELSE {}
    IN  {sess}
        \cup Sets("service", {{}, {"National"}})
        \cup Sets("duration_class", {{"< 1h30"}})
        \cup Sets("treat_bidirectional", {TRUE, FALSE})
        \cup Sets("departures", {{}, {StA}})
        \cup Sets("arrivals", {{}, {StB}})
        \cup (IF "date_range_dt" \in DOMAIN sess
              THEN {Put(sess, "date_range_dt", v) : v \in SliderChoices(cat)} ELSE {})

\* One run of a page script, which follows the load in the same script run (phase
\* "page") or, on a later rerun, app.py finding the table in the session and
\* loading nothing: init_state, the page's sidebar, the guard on the table, the
\* filter.
RunPage(page) ==
    /\ loaded
    /\ \E sess0 \in AfterInteraction(page, session, catalog, view.op) :
          /\ session' = Sidebar(page, init_state(sess0), catalog)
          /\ IF df_clean = <<>>
             THEN /\ dff' = dff
                  /\ view' = [op |-> "stopped", why |-> "no data"]
             ELSE /\ dff' = apply_overview_filters(df_clean, session')
                  /\ view' = [op |-> page]
          /\ df_clean' = TableAfterPage(df_clean, dff')
    /\ phase' = "idle"
    /\ UNCHANGED <<csv_file, parquet, loaded, catalog, stations>>

OverviewPage == RunPage("overview")
RoutesPage == RunPage("routes")
CausesPage == RunPage("causes")
GeoPage == RunPage("geo")
DataQualityPage == RunPage("quality")

\* The browser session ends and another begins: st.session_state is empty again,
\* the files stay.
NewSession ==
    /\ phase = "idle"
    /\ loaded' = FALSE
    /\ df_clean' = <<>>
    /\ catalog' = NoCatalog
    /\ session' = [k \in {} |-> {}]
    /\ dff' = <<>>
    /\ view' = NoView
    /\ UNCHANGED <<csv_file, parquet, phase, stations>>

Next ==
    \/ AppLoadCache
    \/ AppLoadCsv
    \/ AppDownload
    \/ OverviewPage
    \/ RoutesPage
    \/ CausesPage
    \/ GeoPage
    \/ DataQualityPage
    \/ NewSession

Spec == Init /\ [][Next]_vars

(* ----------------------- the slider specification ---------------------- *)

\* Largest number of rows of a table drawn for the slider specification.
MaxSliderRows == 2

\* Rows of January and March 2020: the two months are 60 days apart.
SliderPool ==
    { BaseRaw,
      [BaseRaw EXCEPT !.date = <<2020, 3>>],
      [BaseRaw EXCEPT !.date = <<2020, 3>>, !.departure = StB, !.arrival = StA] }

\* app.py has loaded a table and stored the catalog and the default dates.
InitSlider ==
    /\ csv_file = NoFile
    /\ parquet = NoParquet
    /\ loaded = TRUE
    /\ \E raw \in TablesUpTo(SliderPool, MaxSliderRows) :
          /\ df_clean = clean(raw)
          /\ catalog = filter_values(clean(raw))
    /\ session = DefaultDates(init_state([k \in {} |-> {}]), catalog)
    /\ dff = <<>>
    /\ view = NoView
    /\ phase = "idle"
    /\ stations = StationsFile

\* A run of the Overview page with the session sess0.
SliderRun(sess0, next) ==
    /\ loaded
    /\ session' = Sidebar("overview", init_state(sess0), catalog)
    /\ dff' = apply_overview_filters(df_clean, session')
    /\ view' = [op |-> "overview"]
    /\ phase' = next
    /\ UNCHANGED <<csv_file, parquet, loaded, df_clean, catalog, stations>>

\* The first run of the page in the session: the slider is created.
SliderFirstRender ==
    /\ phase = "idle"
    /\ SliderRun(session, "page")

\* A rerun after the user has left the slider at any pair of days.  A later
\* rerun replaces the slider value again and reaches the same states.
SliderRerun ==
    /\ phase = "page"
    /\ \E v \in SliderDays(catalog) : SliderRun(Put(session, "date_range_dt", v), "done")

NextSlider == SliderFirstRender \/ SliderRerun

SpecSlider == InitSlider /\ [][NextSlider]_vars

(* -------------------- the aggregation specification -------------------- *)

\* Rows of one month with the counts of the KPI scenario (circulated 100, 200,
\* 50; late 10, 20, 5), a route with no circulation and no late train, and a
\* small route with half of its trains late.
AggPool ==
    { [BaseRaw EXCEPT !.planned = 100, !.late_arr_count = 10,
                      !.late_over_15_count = 5, !.late_over_30_count = 2,
                      !.late_over_60_count = 1,
                      !.cause = <<60, 40, 0, 0, 0, 0>>],
      [BaseRaw EXCEPT !.departure = StB, !.arrival = StA,
                      !.planned = 200, !.late_arr_count = 20,
                      !.late_over_15_count = 10, !.late_over_30_count = 0,
                      !.cause = <<20, 80, 0, 0, 0, 0>>],
      [BaseRaw EXCEPT !.arrival = StC, !.avg_duration_min = 120,
                      !.planned = 50, !.late_arr_count = 5,
                      !.late_over_15_count = 0,
                      !.cause = <<0, 0, 100, 0, 0, 0>>],
      [BaseRaw EXCEPT !.service = "International", !.departure = StC, !.arrival = StA,
                      !.avg_duration_min = 200, !.planned = 4, !.canceled = 4,
                      !.late_arr_count = 0, !.late_over_15_count = 0,
                      !.avg_delay_arr_delayed_min = BadToken,
                      !.cause = <<NA, NA, NA, NA, NA, NA>>],
      [BaseRaw EXCEPT !.date = <<2020, 2>>, !.planned = 4, !.late_arr_count = 2,
                      !.late_over_15_count = 1,
                      !.cause = <<50, 0, 0, 0, 0, 50>>] }

AggSessions ==
    { init_state(MkSession(<<2020, 1>>, <<2020, 2>>, sv, None, None, None, Some(bi))) :
        sv \in {None, Some({"National"})}, bi \in BOOLEAN }

\* A page has loaded the canonical table and filtered it.
InitAgg ==
    /\ csv_file = NoFile
    /\ parquet = NoParquet
    /\ loaded = TRUE
    /\ \E raw \in TablesUpTo(AggPool, MaxRows) :
          /\ df_clean = clean(raw)
          /\ catalog = filter_values(clean(raw))
    /\ session \in AggSessions
    /\ dff = apply_overview_filters(df_clean, session)
    /\ view = NoView
    /\ phase = "filtered"
    /\ stations = StationsFile

\* The operation's result is what the page shows.
Shows(result) ==
    /\ phase = "filtered"
    /\ view' = result
    /\ phase' = "done"
    /\ UNCHANGED <<csv_file, parquet, loaded, df_clean, catalog, session, dff, stations>>

KpisOverview == Shows([op |-> "kpis_overview", out |-> kpis_overview(dff)])

LiaisonSummary ==
    Shows([op |-> "liaison_summary",
           out |-> liaison_summary(dff, Get(session, "treat_bidirectional", FALSE))])

CausesByAttr ==
    \E attr \in {"service", "duration_class"} :
        Shows([op |-> "causes_by_attr", attr |-> attr, out |-> causes_by_attr(dff, attr)])

SeverityProfile ==
    Shows([op |-> "severity_profile_by_cause", out |-> severity_profile_by_cause(dff)])

CauseDominance ==
    IF liaison_cause_dominance_summary_raises(dff)
    THEN Shows([op |-> "liaison_cause_dominance_summary", raised |-> "KeyError"])
    ELSE Shows([op |-> "liaison_cause_dominance_summary",
                out |-> liaison_cause_dominance_summary(
                            dff, Get(session, "treat_bidirectional", TRUE))])

\* The Geo View page past its guards: the edges it draws.
GeoView ==
    /\ dff # <<>>
    /\ Shows([op |-> "geo_edges",
              out |-> GeoEdges(dff, stations, Get(session, "treat_bidirectional", FALSE))])

NextAgg ==
    \/ KpisOverview
    \/ LiaisonSummary
    \/ CausesByAttr
    \/ SeverityProfile
    \/ CauseDominance
    \/ GeoView

SpecAgg == InitAgg /\ [][NextAgg]_vars

(* ------------------------- concentration curve ------------------------- *)

\* Series.cumsum() up to position i of an integer column.
CumSum(s, i) == SumInts(SubSeq(s, 1, i))

\* The curve with np.arange(len(d)) not shifted by one.
lorenz_late_share_unshifted(df) ==
    IF df = <<>> THEN None
    ELSE
    LET kept == SelectRowsAt(df, {i \in 1..Len(df) : notna(df[i].late_arr_count)})
        counts == [i \in 1..Len(kept) |-> kept[i].late_arr_count]
        total == SumInts(counts)
    IN  IF total <= 0 THEN None
        ELSE Some([i \in 1..Len(kept) |->
                     [cum_liaisons |-> Frac((i - 1) * 100, Len(kept)),
                      cum_late_share |-> Frac(CumSum(counts, i) * 100, total)]])

\* The points (cum_liaisons, cum_late_share) of the figure, or None.
lorenz_late_share(df) ==
    IF df = <<>> THEN None
    ELSE
    LET kept == SelectRowsAt(df, {i \in 1..Len(df) : notna(df[i].late_arr_count)})
        d == sort_values([i \in 1..Len(kept) |->
                             [liaison |-> kept[i].liaison,
                              late_arr_count |-> FromInt(kept[i].late_arr_count),
                              count |-> kept[i].late_arr_count]],
                         "late_arr_count", FALSE)
        counts == [i \in 1..Len(d) |-> d[i].count]
        total == SumInts(counts)
    IN  IF total <= 0 THEN None
        ELSE Some([i \in 1..Len(d) |->
                     [cum_liaisons |-> Frac(i * 100, Len(d)),
                      cum_late_share |-> Frac(CumSum(counts, i) * 100, total)]])

(* ----------------------------- outlier months -------------------------- *)

\* f - g
FSub(f, g) == FAdd(f, FMul(Frac(-1, 1), g))

\* The values of a float series in ascending order.
SortFloats(x) ==
    Col(sort_values([i \in 1..Len(x) |-> [v |-> x[i]]], "v", TRUE), "v")

\* Series.quantile(q): linear interpolation between the two order statistics
\* around position (n - 1) * q.
quantile(x, q) ==
    LET sorted == SortFloats(x)
        n == Len(x)
        pos == Frac((n - 1) * q.n, q.d)
        lo == pos.n \div pos.d
        frac == FSub(pos, Frac(lo, 1))
    IN  IF lo + 1 >= n THEN sorted[n]
        ELSE FAdd(sorted[lo + 1], FMul(FSub(sorted[lo + 2], sorted[lo + 1]), frac))

\* x < a + b * 1e-9.  The constant 1e-9 is smaller than any difference between
\* two distinct values that the tables drawn here can produce, so the term
\* decides the comparison only when x and a are equal.
LtWithEps(x, a, b) == IF FracSame(x, a) THEN FracLt(Frac(0, 1), b) ELSE FracLt(x, a)

\* The flag of flag_group without the interquartile range: x < q1.
IsOutlier_noiqr(x, value, threshold) ==
    /\ Cardinality({x[j] : j \in 1..Len(x)}) > 1
    /\ FracLt(value, quantile(x, Frac(1, 4)))

\* flag_group, method "iqr": the flag of one monthly value among the monthly
\* values x of its liaison.
IsOutlier(x, value, threshold) ==
    /\ Cardinality({x[j] : j \in 1..Len(x)}) > 1
    /\ LET q1 == quantile(x, Frac(1, 4))
           q3 == quantile(x, Frac(3, 4))
           \* iqr = (q3 - q1) + 1e-9 ; lower = q1 - threshold * iqr
           lower == FSub(q1, FMul(threshold, FSub(q3, q1)))
       IN  LtWithEps(value, lower, FMul(Frac(-1, 1), threshold))

\* The on-time % of one row.
on_time_pct_row(r) ==
    IF r.late_arr_count # NA /\ r.circulated > 0
    THEN Frac((r.circulated - r.late_arr_count) * 100, r.circulated)
    ELSE NaN

\* The monthly means of a liaison, month by month, rows without a value dropped.
MonthlyValues(df, liaison) ==
    LET at(m) == {i \in 1..Len(df) : /\ df[i].liaison = liaison
                                     /\ df[i].date = m
                                     /\ ~IsNaN(on_time_pct_row(df[i]))}
        months == SortInts({df[i].date : i \in {j \in 1..Len(df) : at(df[j].date) # {}}})
    IN  [j \in 1..Len(months) |->
            [month |-> months[j],
             on_time_pct_row |->
                 MeanFloats([k \in 1..Len(SelectRowsAt(df, at(months[j]))) |->
                                on_time_pct_row(SelectRowsAt(df, at(months[j]))[k])])]]

\* Rows (date, liaison, on_time_pct, flag) of the flagged months, by date and liaison.
outlier_months(df, threshold) ==
    IF df = <<>> THEN <<>>
    ELSE
    LET liaisons == SortStrs({df[i].liaison : i \in 1..Len(df)})
        dates == SortInts({df[i].date : i \in 1..Len(df)})
        x(l) == Col(MonthlyValues(df, l), "on_time_pct_row")
        Flagged(l, m) ==
            \E j \in 1..Len(MonthlyValues(df, l)) :
                /\ MonthlyValues(df, l)[j].month = m
                /\ IsOutlier(x(l), MonthlyValues(df, l)[j].on_time_pct_row, threshold)
        ValueAt(l, m) ==
            LET j == CHOOSE j \in 1..Len(MonthlyValues(df, l)) : MonthlyValues(df, l)[j].month = m
            IN  MonthlyValues(df, l)[j].on_time_pct_row
        RowsOf(m) ==
            LET hit == SelectRowsAt(liaisons, {k \in 1..Len(liaisons) : Flagged(liaisons[k], m)})
            IN  [k \in 1..Len(hit) |->
                    [date |-> m, liaison |-> hit[k],
                     on_time_pct |-> ValueAt(hit[k], m), flag |-> TRUE]]
    IN  Flatten([d \in 1..Len(dates) |-> RowsOf(dates[d])])

(* --------------------------- data quality checks ----------------------- *)

\* CORE_KEYS of one row.
CoreKey(r) == <<r.date, r.service, r.departure, r.arrival>>

\* Rows (date, service, departure, arrival, count) of the keys held by more than
\* one row, the largest count first.
duplicate_keys(df) ==
    IF df = <<>> THEN <<>>
    ELSE
    LET first == {i \in 1..Len(df) : \A j \in 1..(i - 1) : CoreKey(df[j]) # CoreKey(df[i])}
        size(i) == Cardinality({j \in 1..Len(df) : CoreKey(df[j]) = CoreKey(df[i])})
        g == [k \in 1..Len(SelectRowsAt(df, first)) |->
                 LET r == SelectRowsAt(df, first)[k]
                 IN  [date |-> r.date, service |-> r.service, departure |-> r.departure,
                      arrival |-> r.arrival,
                      count |-> Cardinality({j \in 1..Len(df) : CoreKey(df[j]) = CoreKey(r)}),
                      order |-> Frac(Cardinality({j \in 1..Len(df) :
                                                    CoreKey(df[j]) = CoreKey(r)}), 1)]]
        kept == SelectRowsAt(g, {k \in 1..Len(g) : g[k].count > 1})
        sorted == sort_values(kept, "order", FALSE)
    IN  [k \in 1..Len(sorted) |->
            [date |-> sorted[k].date, service |-> sorted[k].service,
             departure |-> sorted[k].departure, arrival |-> sorted[k].arrival,
             count |-> sorted[k].count]]

\* count_cols: the columns ending in _count, then the four named ones.
CountCols ==
    <<"late_arr_count", "late_over_15_count", "late_over_30_count", "late_over_60_count",
      "planned", "canceled", "circulated", "late_arr_count">>

\* The columns of the canonical table, of which none is duration_min or duration.
HasColumn(df, c) == df # <<>> /\ c \in DOMAIN df[1]

\* Entries (row_id, issue, value) of one row: percentages, counts, duration.
RowBoundsIssues(df, r) ==
    LET pct == [k \in 1..Len(r.cause) |->
                   IF notna(r.cause[k]) /\ (r.cause[k] < 0 \/ r.cause[k] > 100)
                   THEN <<[row_id |-> r.row_id, issue |-> "outside [0,100]",
                           column |-> CauseCols[k], value |-> r.cause[k]]>>
                   ELSE <<>>]
        cnt == [k \in 1..Len(CountCols) |->
                   IF notna(r[CountCols[k]]) /\ r[CountCols[k]] < 0
                   THEN <<[row_id |-> r.row_id, issue |-> "negative",
                           column |-> CountCols[k], value |-> r[CountCols[k]]]>>
                   ELSE <<>>]
        duration_col == IF HasColumn(df, "duration_min") THEN "duration_min" ELSE "duration"
        dur == IF HasColumn(df, duration_col)
               THEN IF notna(r[duration_col]) /\ r[duration_col] <= 0
                    THEN <<[row_id |-> r.row_id, issue |-> "non-positive",
                            column |-> duration_col, value |-> r[duration_col]]>>
                    ELSE <<>>
               ELSE <<>>
    IN  Flatten(pct) \o Flatten(cnt) \o dur

bounds_issues(df) == Flatten([i \in 1..Len(df) |-> RowBoundsIssues(df, df[i])])

\* The five rules, in the order they are checked.
RuleNames ==
    <<"late_arr_count <= circulated", ">=15 <= circulated", ">=30 <= >=15",
      ">=60 <= >=30", "avg(all) <= avg(delayed)">>

\* The two cells a rule compares: the rule is violated when the first is larger.
RuleCells(r, k) ==
    CASE k = 1 -> <<r.late_arr_count, r.circulated>>
      [] k = 2 -> <<r.late_over_15_count, r.circulated>>
      [] k = 3 -> <<r.late_over_30_count, r.late_over_15_count>>
      [] k = 4 -> <<r.late_over_60_count, r.late_over_30_count>>
      [] k = 5 -> <<r.avg_delay_arr_all_min, r.avg_delay_arr_delayed_min>>

\* The checks with the last rule left out.
logical_consistency_fourrules(df) ==
    Flatten([i \in 1..Len(df) |->
        Flatten([k \in 1..4 |->
            LET c == RuleCells(df[i], k)
            IN  IF notna(c[1]) /\ notna(c[2]) /\ c[1] > c[2]
                THEN <<[row_id |-> df[i].row_id, rule |-> RuleNames[k], details |-> c]>>
                ELSE <<>>])])

\* Entries (row_id, rule, details), row by row and rule by rule.
logical_consistency(df) ==
    Flatten([i \in 1..Len(df) |->
        Flatten([k \in 1..Len(RuleNames) |->
            LET c == RuleCells(df[i], k)
            IN  IF notna(c[1]) /\ notna(c[2]) /\ c[1] > c[2]
                THEN <<[row_id |-> df[i].row_id, rule |-> RuleNames[k], details |-> c]>>
                ELSE <<>>])])

(* ----------------------- the shape of the results ----------------------- *)

OpNames ==
    { "kpis_overview", "monthly_series", "duration_small_multiples", "liaison_ranking",
      "liaison_summary", "causes_composition", "causes_pivot_monthly", "causes_by_attr",
      "severity_profile_by_cause", "liaison_cause_dominance_summary", "severe_counts",
      "build_edges", "station_metrics" }

SummaryColumns ==
    { "liaison", "service", "duration_class", "planned", "canceled", "circulated",
      "late_arr_count", "on_time_pct", "cancel_rate_pct", "late_rate_pct",
      "avg_delay_arr_delayed_min" }

\* The column names (index name included) of what an operation returns for a
\* table of zero rows: the columns= list of its early return, none for pd.DataFrame().
EmptyColumns(op) ==
    CASE op = "kpis_overview" -> {"on_time_pct", "cancel_rate_pct", "avg_arr_delay_delayed"}
      [] op = "monthly_series" -> {"date", "on_time_pct", "cancel_rate_pct"}
      [] op = "duration_small_multiples" -> {"date", "duration_class", "on_time_pct"}
      [] op = "liaison_ranking" -> {}
      [] op = "liaison_summary" -> SummaryColumns
      [] op = "causes_composition" -> {"group", "cause", "pct"}
      [] op = "causes_pivot_monthly" -> {}
      [] op = "causes_by_attr" -> {"group", "cause", "pct"}
      [] op = "severity_profile_by_cause" -> {"cause", "bucket", "pct"}
      [] op = "liaison_cause_dominance_summary" -> {}
      [] op = "severe_counts" -> {"group", "count"}
      [] op = "build_edges" ->
            { "liaison", "dep_lon", "dep_lat", "arr_lon", "arr_lat", "on_time_pct",
              "cancel_rate_pct", "severe_15_count", "circulated", "color", "width" }
      [] op = "station_metrics" ->
            { "station", "lat", "lon", "circulated", "late_arr_count", "on_time_pct",
              "late_rate_pct" }

\* The column names of what it returns for a canonical table with rows.
ResultColumns(op) ==
    CASE op = "kpis_overview" -> {"on_time_pct", "cancel_rate_pct", "avg_arr_delay_delayed"}
      [] op = "monthly_series" -> {"date", "on_time_pct", "cancel_rate_pct"}
      [] op = "duration_small_multiples" -> {"date", "duration_class", "on_time_pct"}
      [] op = "liaison_ranking" ->
            { "liaison", "planned", "canceled", "circulated", "late_arr",
              "avg_delay_arr_delayed_min", "on_time_pct", "cancel_rate_pct", "rank_metric" }
      [] op = "liaison_summary" -> SummaryColumns
      [] op = "causes_composition" -> {"group", "cause", "pct"}
      [] op = "causes_pivot_monthly" ->
            {"month"} \cup {_CAUSE_LABELS[k] : k \in CauseIdx}
      [] op = "causes_by_attr" -> {"group", "cause", "pct"}
      [] op = "severity_profile_by_cause" -> {"cause", "bucket", "pct"}
      [] op = "liaison_cause_dominance_summary" ->
            { "liaison", "on_time_pct", "avg_delay_arr_delayed_min", "late_arr_count",
              "dominant_cause" }
      [] op = "severe_counts" -> {"group", "count"}
      [] op = "build_edges" ->
            { "liaison", "dep_lon", "dep_lat", "arr_lon", "arr_lat", "on_time_pct",
              "cancel_rate_pct", "severe_15_count", "circulated",
              "avg_delay_arr_delayed_min", "color", "width" }
      [] op = "station_metrics" ->
            { "station", "lat", "lon", "circulated", "late_arr_count", "late_rate_pct",
              "on_time_pct" }

(* -------------------- the operations specification --------------------- *)

\* Largest number of rows of a table drawn for the operations specification.
MaxOpsRows == 2

\* liaison_ranking's default top_n, which the Routes Compare page leaves as is.
DefaultTopN == 10

\* Two routes of one month with the same on-time %, one with the cause shares
\* 20/45/35 and one with two equal largest shares; the reverse of the first route
\* in the other service; a route with no circulation and no late train; and a
\* route whose file row carries a negative late count, which clean keeps.
OpsPool ==
    { [BaseRaw EXCEPT !.departure = StB, !.arrival = StC,
                      !.cause = <<50, 0, 0, 0, 0, 50>>],
      [BaseRaw EXCEPT !.cause = <<20, 45, 35, 0, 0, 0>>],
      [BaseRaw EXCEPT !.date = <<2020, 2>>, !.service = "International",
                      !.departure = StB, !.arrival = StA, !.avg_duration_min = 200,
                      !.planned = 20, !.canceled = 5, !.late_arr_count = 3,
                      !.late_over_15_count = 2, !.avg_delay_arr_delayed_min = 30,
                      !.cause = <<0, 0, 60, 20, 0, 0>>],
      [BaseRaw EXCEPT !.service = "International", !.departure = StC, !.arrival = StA,
                      !.planned = 4, !.canceled = 4, !.late_arr_count = 0,
                      !.late_over_15_count = 0, !.avg_delay_arr_delayed_min = BadToken,
                      !.cause = <<NA, NA, NA, NA, NA, NA>>],
      [BaseRaw EXCEPT !.date = <<2020, 2>>, !.departure = StA, !.arrival = StC,
                      !.late_arr_count = -1, !.late_over_15_count = 0,
                      !.cause = <<0, 100, 0, 0, 0, 0>>] }

\* The same file without the six pct_cause_* columns.
DropCauses(raw) == [i \in 1..Len(raw) |-> [raw[i] EXCEPT !.cause = <<>>]]

OpsTables ==
    LET full == TablesUpTo(OpsPool, MaxOpsRows)
    IN  full \cup {DropCauses(t) : t \in full}

\* A page has loaded a table, with or without cause columns, and filtered it.
InitOps ==
    /\ csv_file = NoFile
    /\ parquet = NoParquet
    /\ loaded = TRUE
    /\ \E raw \in OpsTables :
          /\ df_clean = clean(raw)
          /\ catalog = filter_values(clean(raw))
    /\ session \in AggSessions
    /\ dff = apply_overview_filters(df_clean, session)
    /\ view = NoView
    /\ phase = "filtered"
    /\ stations = StationsFile

MonthlySeries == Shows([op |-> "monthly_series", out |-> monthly_series(dff)])

DurationSmallMultiples ==
    Shows([op |-> "duration_small_multiples", out |-> duration_small_multiples(dff)])

\* The page keeps the default top_n, which real tables exceed in number of
\* liaisons; for the tables drawn here a top_n of 1 stands for that situation.
LiaisonRanking ==
    \E metric \in {"On-time arrival %", "Avg arrival delay (delayed trains)", "Cancel rate %"},
       top_n \in {1, DefaultTopN} :
        Shows([op |-> "liaison_ranking", metric |-> metric, top_n |-> top_n,
               out |-> liaison_ranking(dff, metric,
                                       Get(session, "treat_bidirectional", FALSE),
                                       top_n)])

CausesComposition ==
    \E breakdown \in {"Month", "Liaison"}, top_n \in {None, Some(1)} :
        /\ breakdown = "Month" => top_n = None
        /\ Shows([op |-> "causes_composition", breakdown |-> breakdown,
                  out |-> causes_composition(dff, breakdown, top_n)])

CausesPivotMonthly ==
    Shows([op |-> "causes_pivot_monthly", out |-> causes_pivot_monthly(dff)])

SevereCounts ==
    \E breakdown \in {"Month", "Liaison"}, bucket \in {">=15", ">=60"},
       top_n \in {None, Some(1)} :
        /\ breakdown = "Month" => top_n = None
        /\ Shows([op |-> "severe_counts", breakdown |-> breakdown, bucket |-> bucket,
                  out |-> severe_counts(dff, breakdown, bucket, top_n)])

BuildEdges ==
    Shows([op |-> "build_edges",
           out |-> build_edges(attach_coords(dff, load_station_lookup(stations)))])

StationMetrics ==
    Shows([op |-> "station_metrics",
           out |-> station_metrics(attach_coords(dff, load_station_lookup(stations)))])

\* Routes Compare: the curve is asked for when the summary has rows.
LorenzLateShare ==
    /\ liaison_summary(dff, Get(session, "treat_bidirectional", FALSE)) # <<>>
    /\ Shows([op |-> "lorenz_late_share",
              out |-> lorenz_late_share(
                          liaison_summary(dff, Get(session, "treat_bidirectional", FALSE)))])

NextOps ==
    \/ KpisOverview
    \/ MonthlySeries
    \/ DurationSmallMultiples
    \/ LiaisonRanking
    \/ LiaisonSummary
    \/ CausesComposition
    \/ CausesPivotMonthly
    \/ CausesByAttr
    \/ SeverityProfile
    \/ CauseDominance
    \/ SevereCounts
    \/ BuildEdges
    \/ StationMetrics
    \/ LorenzLateShare

SpecOps == InitOps /\ [][NextOps]_vars

(* ---------------------- the outlier specification ----------------------- *)

\* Largest number of months of a drawn series of monthly on-time values.
MaxMonths == 4

\* IQR_K of the Data Quality page
IQR_K == Frac(3, 2)

\* Monthly on-time percentages of a drawn series; NA stands for a month in which
\* nothing circulated.
OutlierValues == {20, 90, 92, NA}

\* The scenario series: six ordinary months and one month at 20 %.
ScenarioSeries == <<90, 91, 89, 92, 90, 91, 20>>

\* One file row per month of 2020 for a route, with the given on-time percentages.
SeriesRows(dep, arr, series) ==
    [m \in 1..Len(series) |->
        [BaseRaw EXCEPT !.date = <<2020, m>>, !.departure = dep, !.arrival = arr,
                        !.planned = IF series[m] = NA THEN 0 ELSE 100,
                        !.late_arr_count = IF series[m] = NA THEN 0 ELSE 100 - series[m],
                        !.late_over_15_count = 0]]

\* A second row of the first month of the route, in the other service, on time.
TwinRow ==
    [BaseRaw EXCEPT !.service = "International", !.planned = 100,
                    !.late_arr_count = 0, !.late_over_15_count = 0]

OutlierTables ==
    { SeriesRows(StA, StB, s) \o other \o twin :
        s \in SeqsUpTo(OutlierValues, MaxMonths) \cup {ScenarioSeries},
        other \in {<<>>, SeriesRows(StB, StC, <<92, 20, 20>>)},
        twin \in {<<>>, <<TwinRow>>} }

\* The Data Quality page has loaded a table and filtered it on the whole year.
InitOutlier ==
    /\ csv_file = NoFile
    /\ parquet = NoParquet
    /\ loaded = TRUE
    /\ \E raw \in OutlierTables :
          /\ df_clean = clean(raw)
          /\ catalog = filter_values(clean(raw))
    /\ session = init_state(MkSession(<<2020, 1>>, <<2020, 12>>, None, None, None, None, None))
    /\ dff = apply_overview_filters(df_clean, session)
    /\ view = NoView
    /\ phase = "filtered"
    /\ stations = StationsFile

OutlierMonths ==
    Shows([op |-> "outlier_months", out |-> outlier_months(dff, IQR_K)])

NextOutlier == OutlierMonths

SpecOutlier == InitOutlier /\ [][NextOutlier]_vars

(* ---------------------- the quality specification ----------------------- *)

\* Largest number of rows of a table drawn for the quality specification.
MaxQualityRows == 2

\* A sound row; a row breaking the five rules at once; a row with a negative
\* count, cause shares outside [0,100] and a duration of zero; a second row with
\* the key of the first; and a row with unreadable counts and delays.
QualityPool ==
    { BaseRaw,
      [BaseRaw EXCEPT !.departure = StB, !.arrival = StC,
                      !.late_arr_count = 12, !.late_over_15_count = 11,
                      !.late_over_30_count = 12, !.late_over_60_count = 13,
                      !.avg_delay_arr_all_min = 30, !.avg_delay_arr_delayed_min = 20],
      [BaseRaw EXCEPT !.departure = StA, !.arrival = StC, !.avg_duration_min = 0,
                      !.canceled = -2, !.late_arr_count = -1,
                      !.cause = <<120, -5, 100, 0, NA, 50>>],
      [BaseRaw EXCEPT !.planned = 20, !.late_arr_count = 25],
      [BaseRaw EXCEPT !.departure = StC, !.arrival = StA,
                      !.late_arr_count = BadToken, !.late_over_30_count = BadToken,
                      !.late_over_60_count = 1,
                      !.avg_delay_arr_delayed_min = BadToken] }

InitQuality ==
    /\ csv_file = NoFile
    /\ parquet = NoParquet
    /\ loaded = TRUE
    /\ \E raw \in TablesUpTo(QualityPool, MaxQualityRows) :
          /\ df_clean = clean(raw)
          /\ catalog = filter_values(clean(raw))
    /\ session \in AggSessions
    /\ dff = apply_overview_filters(df_clean, session)
    /\ view = NoView
    /\ phase = "filtered"
    /\ stations = StationsFile

DuplicateKeys == Shows([op |-> "duplicate_keys", out |-> duplicate_keys(dff)])

BoundsIssues == Shows([op |-> "bounds_issues", out |-> bounds_issues(dff)])

LogicalConsistency ==
    Shows([op |-> "logical_consistency", out |-> logical_consistency(dff)])

NextQuality ==
    \/ DuplicateKeys
    \/ BoundsIssues
    \/ LogicalConsistency

SpecQuality == InitQuality /\ [][NextQuality]_vars

(* ----------------------- the score specification ----------------------- *)

\* round(x * k) / k with ties to even: round(x) for k = 1, round(x, 2) for k = 100.
RoundAt(f, k) ==
    IF IsNaN(f) THEN NaN
    ELSE LET t == k * f.n
             q == t \div f.d
             r2 == 2 * (t % f.d)
             up == r2 > f.d \/ (r2 = f.d /\ q % 2 = 1)
         IN  Frac(IF up THEN q + 1 ELSE q, k)

FMin(f, g) == IF FracLt(g, f) THEN g ELSE f

\* missingness_table on a table of n_rows rows, given the number of missing
\* cells of each column: one row per column.
missingness_table(n_rows, missing_count) ==
    [c \in 1..Len(missing_count) |->
        [missing_count |-> missing_count[c],
         missing_pct |-> RoundAt(Frac(100 * missing_count[c], n_rows), 100)]]

\* max of a float column without missing values.
MaxFloat(s) == CHOOSE m \in {s[i] : i \in 1..Len(s)} : \A i \in 1..Len(s) : ~FracLt(m, s[i])

\* _normalize_missing_table: the pct column is found by its name missing_pct and
\* the count column by its name missing_count; a pct column whose maximum is at
\* most 1.0 is taken for a ratio and multiplied by 100.
_normalize_missing_table(miss_raw, n_rows) ==
    IF miss_raw = <<>> THEN <<>>
    ELSE
    LET pct == [c \in 1..Len(miss_raw) |-> miss_raw[c].missing_pct]
        scaled == IF ~FracLt(Frac(1, 1), MaxFloat(pct))
                  THEN [c \in 1..Len(pct) |-> FMul(pct[c], Frac(100, 1))]
                  ELSE pct
    IN  [c \in 1..Len(miss_raw) |->
            [Missing_pct |-> scaled[c], Missing_count |-> miss_raw[c].missing_count,
             Non_null_pct |-> FSub(Frac(100, 1), scaled[c])]]

\* _dq_score; the four issue tables are given by their numbers of rows.
_dq_score(n, miss_tbl, dup_df, bdf, ldf, odf) ==
    LET s0 == Frac(100, 1)
        s1 == IF miss_tbl # <<>>
              THEN FSub(s0, FMul(Frac(1, 2),
                        MeanFloats([c \in 1..Len(miss_tbl) |-> miss_tbl[c].Missing_pct])))
              ELSE s0
        Less(sc, len, cap) ==
            IF n > 0 /\ len > 0 THEN FSub(sc, FMin(Frac(cap, 1), Frac(100 * len, n))) ELSE sc
        score == Less(Less(Less(Less(s1, dup_df, 10), bdf, 15), ldf, 15), odf, 15)
        r == RoundAt(score, 1).n
    IN  IF r < 0 THEN 0 ELSE r

\* Largest number of rows of the filtered table of the Data Quality page.
MaxDqRows == 200

\* The sizes the page's tables can have for a filtered table of n rows in two
\* columns: missing cells per column, duplicated keys, and the rows of the
\* bounds, logic and outlier tables.
DqRowCounts == {1, 2, 3, MaxDqRows}

InitScore ==
    /\ csv_file = NoFile
    /\ parquet = NoParquet
    /\ loaded = TRUE
    /\ df_clean = clean(<<BaseRaw>>)
    /\ catalog = filter_values(df_clean)
    /\ session \in AggSessions
    /\ dff = apply_overview_filters(df_clean, session)
    /\ view = NoView
    /\ phase = "filtered"
    /\ stations = StationsFile

\* The summary calculations of the page, the filtered table and its issue tables
\* taken by their sizes: the score depends on nothing else.
DqScore ==
    \E n_rows \in DqRowCounts :
    \E missing_count \in [1..2 -> {0, 1, 2, n_rows}] :
    \E dup_keys \in {d \in {0, 1} : 2 * d <= n_rows} :
    \E b_issues \in {0, 1, 2 * n_rows} :
    \E logic \in {0, 1, n_rows} :
    \E outs \in {0, 1} :
        /\ \A c \in 1..2 : missing_count[c] <= n_rows
        /\ LET miss == missingness_table(n_rows, missing_count)
               cols_missing == _normalize_missing_table(miss, n_rows)
           IN  Shows([op |-> "_dq_score", n_rows |-> n_rows, miss |-> miss,
                      cols_missing |-> cols_missing, dup_keys |-> dup_keys,
                      b_issues |-> b_issues, logic |-> logic, outs |-> outs,
                      score |-> _dq_score(n_rows, cols_missing, dup_keys, b_issues,
                                          logic, outs)])

NextScore == DqScore

SpecScore == InitScore /\ [][NextScore]_vars

(* ------------------------ the geo specification ------------------------ *)

\* Largest number of rows of a table drawn for the geo specification.
MaxGeoRows == 2

\* The name of station A as a reference table may spell it: in lower case.
StALower == <<97>>
StBLower == <<98>>

\* Routes A -> B and back with different cancellations, a route to a third
\* station and a round trip.
GeoPool ==
    { BaseRaw,
      [BaseRaw EXCEPT !.departure = StB, !.arrival = StA, !.planned = 20,
                      !.canceled = 10, !.late_arr_count = 3],
      [BaseRaw EXCEPT !.arrival = StC, !.planned = 8, !.late_arr_count = 2],
      [BaseRaw EXCEPT !.arrival = StA, !.planned = 5, !.late_arr_count = 0] }

\* data/stations.csv as it may be: absent or empty, complete, spelled in lower
\* case, without station C, and with two spellings of station A.
GeoStationFiles ==
    { <<>>,
      StationsFile,
      << [station |-> StALower, lat |-> 1, lon |-> 1],
         [station |-> StBLower, lat |-> 2, lon |-> 2] >>,
      << [station |-> StA, lat |-> 1, lon |-> 1],
         [station |-> StB, lat |-> 2, lon |-> 2] >>,
      << [station |-> StA, lat |-> 1, lon |-> 1],
         [station |-> StALower, lat |-> 5, lon |-> 5],
         [station |-> StB, lat |-> 2, lon |-> 2] >> }

InitGeo ==
    /\ csv_file = NoFile
    /\ parquet = NoParquet
    /\ loaded = TRUE
    /\ \E raw \in TablesUpTo(GeoPool, MaxGeoRows) :
          /\ df_clean = clean(raw)
          /\ catalog = filter_values(clean(raw))
    /\ session = init_state(MkSession(<<2020, 1>>, <<2020, 2>>, None, None, None, None,
                                      Some(TRUE)))
    /\ dff = apply_overview_filters(df_clean, session)
    /\ view = NoView
    /\ phase = "filtered"
    /\ stations \in GeoStationFiles

\* dff2, missing = attach_coords(dff, lut)
AttachCoords ==
    Shows([op |-> "attach_coords",
           out |-> attach_coords(dff, load_station_lookup(stations))])

\* edges = _merge_bidirectional_edges(build_edges(dff2), lut)
MergeBidirectionalEdges ==
    Shows([op |-> "_merge_bidirectional_edges", out |-> GeoEdges(dff, stations, TRUE)])

NextGeo ==
    \/ AttachCoords
    \/ BuildEdges
    \/ MergeBidirectionalEdges
    \/ StationMetrics

SpecGeo == InitGeo /\ [][NextGeo]_vars

(* ----------------------- the key specification ------------------------- *)

\* Largest number of rows of a table drawn for the key specification.
MaxKeyRows == 2

\* Station names as the CSV can spell them: with or without a space at an end.
KeyNames == {StA, StB, SP \o StA, StB \o SP}

KeyPool == { [BaseRaw EXCEPT !.departure = a, !.arrival = b] : a, b \in KeyNames }

NoKeys == [op |-> "keys", summary |-> None, dominance |-> None, geo |-> None]

\* The liaison column of a result table.
LiaisonsOf(out) == [k \in 1..Len(out) |-> out[k].liaison]

\* A session with treat_bidirectional on has loaded and filtered a table.
InitKey ==
    /\ csv_file = NoFile
    /\ parquet = NoParquet
    /\ loaded = TRUE
    /\ \E raw \in TablesUpTo(KeyPool, MaxKeyRows) :
          /\ df_clean = clean(raw)
          /\ catalog = filter_values(clean(raw))
    /\ session = init_state(MkSession(<<2020, 1>>, <<2020, 1>>, None, None, None, None, None))
    /\ dff = apply_overview_filters(df_clean, session)
    /\ view = NoKeys
    /\ phase = "filtered"
    /\ stations = StationsFile

\* One site has built its undirected keys.
Keyed(site, keys) ==
    /\ view.op = "keys" /\ view[site] = None
    /\ view' = [view EXCEPT ![site] = Some(keys)]
    /\ UNCHANGED <<csv_file, parquet, loaded, df_clean, catalog, session, dff, phase,
                   stations>>

\* Routes Compare: liaison_summary over _normalize_pair_cols.
KeysAtSummary == Keyed("summary", LiaisonsOf(liaison_summary(dff, TRUE)))

\* Causes & Severity: liaison_cause_dominance_summary.
KeysAtDominance == Keyed("dominance", LiaisonsOf(liaison_cause_dominance_summary(dff, TRUE)))

\* Geo View: _merge_bidirectional_edges over the built edges.
KeysAtGeo == Keyed("geo", LiaisonsOf(GeoEdges(dff, stations, TRUE)))

NextKey == KeysAtSummary \/ KeysAtDominance \/ KeysAtGeo

SpecKey == InitKey /\ [][NextKey]_vars

(* ------------------- claims on the filter engine ----------------------- *)

Filtered == phase = "done" /\ view.op = "filter"

\* Row i of the canonical table is in the filtered table, unchanged.
Kept(i) == \E j \in 1..Len(dff) : dff[j].row_id = i /\ dff[j] = df_clean[i]

\* The selections of the session, an absent key read as the empty selection.
SelOf(key) == IF key \in DOMAIN session THEN session[key] ELSE {}
BiOn == "treat_bidirectional" \in DOMAIN session /\ session["treat_bidirectional"]

InRange(row) ==
    /\ row.date # NA
    /\ ToTimestamp(session["date_start"]) <= row.date
    /\ row.date <= ToTimestamp(session["date_end"])

PassesDateServiceDuration(row) ==
    /\ InRange(row)
    /\ (SelOf("service") = {} \/ row.service \in SelOf("service"))
    /\ (SelOf("duration_class") = {} \/ row.duration_class \in SelOf("duration_class"))

EitherEnd(row, sel) == sel = {} \/ row.departure \in sel \/ row.arrival \in sel

\* C1: with treat_bidirectional true and a non-empty station set, a row that passes
\* the date, service and duration filters is kept iff each non-empty station set
\* holds its departure or its arrival.
C1_BidirectionalStations ==
    (Filtered /\ BiOn /\ (SelOf("departures") # {} \/ SelOf("arrivals") # {})) =>
        \A i \in 1..Len(df_clean) :
            PassesDateServiceDuration(df_clean[i]) =>
                (Kept(i) <=> /\ EitherEnd(df_clean[i], SelOf("departures"))
                             /\ EitherEnd(df_clean[i], SelOf("arrivals")))

\* A row B -> A is kept by the departure selection {A} in bidirectional mode.
C1_Witness ==
    /\ Filtered /\ BiOn
    /\ SelOf("departures") = {StA} /\ SelOf("arrivals") = {}
    /\ \E i \in 1..Len(df_clean) :
          /\ df_clean[i].departure = StB /\ df_clean[i].arrival = StA
          /\ Kept(i)

\* C2: with treat_bidirectional false (or absent) a row is kept iff it is in the date
\* range, its service and duration class are in their selections, its departure is
\* in departures and its arrival in arrivals, an empty or absent selection
\* restricting nothing.
C2_DirectedStations ==
    (Filtered /\ ~BiOn) =>
        \A i \in 1..Len(df_clean) :
            Kept(i) <=>
                /\ PassesDateServiceDuration(df_clean[i])
                /\ (SelOf("departures") = {} \/ df_clean[i].departure \in SelOf("departures"))
                /\ (SelOf("arrivals") = {} \/ df_clean[i].arrival \in SelOf("arrivals"))

\* A row B -> A is dropped by the departure selection {A} in directed mode while an
\* empty service selection and an absent duration selection restrict nothing.
C2_Witness ==
    /\ Filtered /\ ~BiOn
    /\ SelOf("departures") = {StA}
    /\ "service" \in DOMAIN session /\ session["service"] = {}
    /\ "duration_class" \notin DOMAIN session
    /\ \E i, k \in 1..Len(df_clean) :
          /\ df_clean[i].departure = StB /\ df_clean[i].arrival = StA /\ ~Kept(i)
          /\ df_clean[k].departure = StA /\ df_clean[k].service = "National" /\ Kept(k)

\* C3: every kept row is dated within [date_start, date_end]; the date predicate
\* keeps a row iff it is within the bounds, so that with no other restriction the
\* kept rows are exactly those; and in a range date_start <= date_end a row dated
\* date_start or date_end passes the date predicate.
C3_InclusiveDates ==
    Filtered =>
        \A i \in 1..Len(df_clean) :
            LET row == df_clean[i]
                unrestricted == /\ SelOf("service") = {} /\ SelOf("duration_class") = {}
                                /\ SelOf("departures") = {} /\ SelOf("arrivals") = {}
            IN  /\ Kept(i) => InRange(row)
                /\ unrestricted => (Kept(i) <=> InRange(row))
                /\ (/\ unrestricted
                    /\ ToTimestamp(session["date_start"]) <= ToTimestamp(session["date_end"])
                    /\ row.date \in {ToTimestamp(session["date_start"]),
                                     ToTimestamp(session["date_end"])}) => Kept(i)

\* A row dated date_start is kept, beside one before the range and one after it
\* that are dropped.
C3_Witness ==
    /\ Filtered
    /\ session["date_start"] = <<2020, 1>> /\ session["date_end"] = <<2020, 1>>
    /\ \E i, k \in 1..Len(df_clean) :
          /\ df_clean[i].date = ToTimestamp(<<2020, 1>>) /\ Kept(i)
          /\ df_clean[k].date \in {ToTimestamp(<<2019, 12>>), ToTimestamp(<<2020, 2>>)}
          /\ ~Kept(k)

(* ---------------------- claims on the session -------------------------- *)

\* Every row of t is a row of the canonical table, under its index label.
SubTable(t) ==
    \A j \in 1..Len(t) :
        /\ t[j].row_id \in 1..Len(df_clean)
        /\ t[j] = df_clean[t[j].row_id]

\* C4: within a session the canonical table, once stored, is never changed by a
\* rerun, a filter change or a page's computations (only a new session unsets it),
\* and the filtered table is a separate record set drawn from it, possibly empty.
C4_CanonicalTableFixed ==
    /\ [][(loaded /\ loaded') => (df_clean' = df_clean /\ catalog' = catalog)]_vars
    /\ [](loaded => SubTable(dff))

\* A page has filtered a two-row canonical table down to nothing.
C4_Witness ==
    /\ loaded /\ view.op \in Pages
    /\ Len(df_clean) = 2 /\ dff = <<>>
    /\ "departures" \in DOMAIN session /\ session["departures"] = {StA}

\* C9: every row of the canonical table and of the filtered table has
\* circulated = max(planned - canceled, 0), a missing count read as 0.
C9_CirculatedFormula ==
    \A t \in {df_clean, dff} : \A i \in 1..Len(t) :
        LET p == IF t[i].planned = NA THEN 0 ELSE t[i].planned
            c == IF t[i].canceled = NA THEN 0 ELSE t[i].canceled
        IN  t[i].circulated = IF p - c > 0 THEN p - c ELSE 0

\* The table came from the cache and holds a row with planned missing and a row
\* with more cancellations than planned trains.
C9_Witness ==
    /\ loaded /\ view.op = "load" /\ view.path = "cache"
    /\ \E i, k \in 1..Len(df_clean) :
          /\ df_clean[i].planned = NA /\ df_clean[i].canceled = 2
          /\ df_clean[k].planned = 3 /\ df_clean[k].canceled = 5

(* -------------------- claims on the aggregations ----------------------- *)

Shown(op) == phase = "done" /\ view.op = op

\* The sum of an integer column over the rows of dff at idx, a missing cell as 0.
RECURSIVE SumAt(_, _)
SumAt(idx, c) ==
    IF idx = {} THEN 0
    ELSE LET i == CHOOSE x \in idx : TRUE
             v == dff[i][c]
         IN  (IF v = NA THEN 0 ELSE v) + SumAt(idx \ {i}, c)

AllRows == 1..Len(dff)

\* Rows i and j are reverses of each other in one month and service.
Reverses(i, j) ==
    /\ i # j
    /\ dff[i].departure = dff[j].arrival /\ dff[i].arrival = dff[j].departure
    /\ dff[i].departure # dff[i].arrival
    /\ dff[i].date = dff[j].date /\ dff[i].service = dff[j].service

\* The summary rows that stand for the pair of row i, under either spelling.
SummaryRowsOf(i) ==
    LET a == dff[i].departure
        b == dff[i].arrival
    IN  {k \in 1..Len(view.out) :
            view.out[k].liaison \in {a \o SP \o BIARROW \o SP \o b, b \o SP \o BIARROW \o SP \o a,
                                     a \o SP \o ARROW \o SP \o b, b \o SP \o ARROW \o SP \o a}}

\* C5: with treat_bidirectional on, two rows (A,B) and (B,A) of one month and
\* service give exactly one liaison_summary row for the pair, and its planned,
\* canceled, circulated and late_arr_count are the sums over the pair's rows: the
\* sums of the two rows' values when they are the pair's only rows.
C5_BidirectionalMerge ==
    (Shown("liaison_summary") /\ session["treat_bidirectional"]) =>
        \A i, j \in AllRows : Reverses(i, j) =>
            LET members == {m \in AllRows :
                               {dff[m].departure, dff[m].arrival}
                                   = {dff[i].departure, dff[i].arrival}}
                Two(c) == (IF dff[i][c] = NA THEN 0 ELSE dff[i][c])
                          + (IF dff[j][c] = NA THEN 0 ELSE dff[j][c])
            IN  /\ Cardinality(SummaryRowsOf(i)) = 1
                /\ \A k \in SummaryRowsOf(i) :
                      \A c \in {"planned", "canceled", "circulated", "late_arr_count"} :
                          /\ view.out[k][c] = SumAt(members, c)
                          /\ members = {i, j} => view.out[k][c] = Two(c)

\* The summary of the rows (A,B) planned 100 and (B,A) planned 200 of one month
\* has a single row, with planned 300 and 30 late arrivals.
C5_Witness ==
    /\ Shown("liaison_summary") /\ session["treat_bidirectional"]
    /\ Len(dff) = 2 /\ Reverses(1, 2)
    /\ Len(view.out) = 1
    /\ view.out[1].planned = 300 /\ view.out[1].late_arr_count = 30

\* C7: kpis_overview's on-time % is (sum circulated - sum late_arr_count) / sum
\* circulated x 100 over the whole filtered set, undefined when the circulated
\* sum is 0, and 90 for circulated [100,200,50] with late_arr_count [10,20,5].
C7_OnTimeRatioOfSums ==
    Shown("kpis_overview") =>
        LET circ == SumAt(AllRows, "circulated")
            late == SumAt(AllRows, "late_arr_count")
            got == view.out.on_time_pct
        IN  /\ circ > 0 => (got.d # 0 /\ got.n * circ = (circ - late) * 100 * got.d)
            /\ circ = 0 => IsNaN(got)
            /\ ([i \in AllRows |-> dff[i].circulated] = <<100, 200, 50>>
                /\ [i \in AllRows |-> dff[i].late_arr_count] = <<10, 20, 5>>)
               => (got.d # 0 /\ got.n = 90 * got.d)

\* kpis_overview has run on the three rows of the scenario and returned 90.
C7_Witness ==
    /\ Shown("kpis_overview")
    /\ [i \in AllRows |-> dff[i].circulated] = <<100, 200, 50>>
    /\ [i \in AllRows |-> dff[i].late_arr_count] = <<10, 20, 5>>
    /\ view.out.on_time_pct = [n |-> 90, d |-> 1]

\* A rate that is undefined or within 0..100.
Bounded(f) == f.d = 0 \/ (f.d > 0 /\ 0 <= f.n /\ f.n <= 100 * f.d)

\* C8: every defined on-time %, cancel rate % and cause-derived share that an
\* aggregation returns lies in [0,100], for every filtered set and grouping.
C8_RatesBounded ==
    /\ Shown("kpis_overview") =>
          Bounded(view.out.on_time_pct) /\ Bounded(view.out.cancel_rate_pct)
    /\ (Shown("liaison_summary") \/ Shown("geo_edges")) =>
          \A k \in 1..Len(view.out) :
              Bounded(view.out[k].on_time_pct) /\ Bounded(view.out[k].cancel_rate_pct)
    /\ Shown("liaison_cause_dominance_summary") =>
          \A k \in 1..Len(view.out) : Bounded(view.out[k].on_time_pct)
    /\ (Shown("causes_by_attr") \/ Shown("severity_profile_by_cause")) =>
          \A k \in 1..Len(view.out) : Bounded(view.out[k].pct)

\* C10: a ratio whose denominator is zero or missing is returned as the
\* undefined value, never as 0 or as another number.
C10_UndefinedOnZeroDenominator ==
    /\ Shown("kpis_overview") =>
          /\ SumAt(AllRows, "circulated") = 0 => IsNaN(view.out.on_time_pct)
          /\ SumAt(AllRows, "planned") = 0 => IsNaN(view.out.cancel_rate_pct)
          /\ SumAt(AllRows, "late_arr_count") = 0 => IsNaN(view.out.avg_arr_delay_delayed)
    /\ Shown("liaison_summary") =>
          \A k \in 1..Len(view.out) :
              /\ view.out[k].circulated = 0 =>
                    IsNaN(view.out[k].on_time_pct) /\ IsNaN(view.out[k].late_rate_pct)
              /\ view.out[k].planned = 0 => IsNaN(view.out[k].cancel_rate_pct)
    /\ Shown("causes_by_attr") =>
          \A k \in 1..Len(view.out) :
              SumAt({i \in AllRows : dff[i][view.attr] = view.out[k].group},
                    "late_arr_count") = 0
                 => IsNaN(view.out[k].pct)
    /\ Shown("severity_profile_by_cause") =>
          \A k \in 1..Len(view.out) :
              LET col == CASE view.out[k].bucket = ">=15" -> "late_over_15_count"
                           [] view.out[k].bucket = ">=30" -> "late_over_30_count"
                           [] OTHER -> "late_over_60_count"
              IN  SumAt(AllRows, col) = 0 => IsNaN(view.out[k].pct)
    /\ (Shown("geo_edges") /\ session["treat_bidirectional"]) =>
          \A k \in 1..Len(view.out) :
              view.out[k].circulated = 0 =>
                  IsNaN(view.out[k].on_time_pct) /\ IsNaN(view.out[k].cancel_rate_pct)

(* ---------------------- claims on the pair key ------------------------- *)

\* The key "{left} <-> {right}" of a row, left the smaller of its two names in
\* code-point order.
ExpectedKey(r) ==
    IF StrLe(r.departure, r.arrival)
    THEN r.departure \o SP \o BIARROW \o SP \o r.arrival
    ELSE r.arrival \o SP \o BIARROW \o SP \o r.departure

\* C6: for every pair of station names, in either direction, the ranking and
\* summary, the dominant-cause attribution and the geographic edge merge build
\* the same key "{left} <-> {right}", left the lexicographically smaller name, and
\* so the same groups.
C6_SameUndirectedKey ==
    view.op = "keys" =>
        \A site \in {"summary", "dominance", "geo"} :
            view[site] # None =>
                view[site][1] = SortStrs({ExpectedKey(dff[i]) : i \in 1..Len(dff)})

(* --------------------- claims on the operations ------------------------- *)

\* C11: every aggregation operation, applied to zero rows, returns without raising
\* an empty table with the same column names as its non-empty result.
C11_EmptyInputShape ==
    (phase = "done" /\ view.op \in OpNames /\ dff = <<>>) =>
        /\ "raised" \notin DOMAIN view
        /\ EmptyColumns(view.op) = ResultColumns(view.op)

\* The operations that read the pct_cause_* columns.
CauseOps ==
    { "causes_composition", "causes_pivot_monthly", "causes_by_attr",
      "severity_profile_by_cause", "liaison_cause_dominance_summary" }

\* The same rows with six cause columns, all cells missing.
WithCauses(df) ==
    [i \in 1..Len(df) |-> [df[i] EXCEPT !.cause = [k \in CauseIdx |-> NA]]]

\* C12: on a non-empty filtered set without the six pct_cause_* columns, every
\* cause-dependent operation returns its empty result and does not raise, and the
\* other operations return what they return when the columns are there.
C12_MissingCauseColumns ==
    (phase = "done" /\ view.op \in OpNames /\ dff # <<>> /\ _cause_cols_in(dff) = {}) =>
        /\ "raised" \notin DOMAIN view
        /\ view.op \in CauseOps => view.out = <<>>
        /\ view.op = "kpis_overview" => view.out = kpis_overview(WithCauses(dff))
        /\ view.op = "monthly_series" => view.out = monthly_series(WithCauses(dff))
        /\ view.op = "duration_small_multiples" =>
              view.out = duration_small_multiples(WithCauses(dff))
        /\ view.op = "liaison_summary" =>
              view.out = liaison_summary(WithCauses(dff),
                                         Get(session, "treat_bidirectional", FALSE))

\* The first row of the filtered table that belongs to a liaison of the ranking.
FirstAppearance(liaison) ==
    LET bi == Get(session, "treat_bidirectional", FALSE)
        norm == _normalize_pair_cols(dff)
        key(i) == IF bi THEN norm[i].liaison_norm ELSE dff[i].liaison
        at == {i \in 1..Len(dff) : key(i) = liaison}
    IN  CHOOSE i \in at : \A j \in at : i <= j

\* C13: liaisons tied on the metric value appear in the ranking in the relative
\* order of their first appearance in the input rows, for every metric and in
\* both direction modes.
C13_TiesKeepInputOrder ==
    Shown("liaison_ranking") =>
        \A part \in {"top", "bottom"} :
            LET rows == view.out[part]
            IN  \A i, j \in 1..Len(rows) :
                    (i < j /\ ~IsNaN(rows[i].rank_metric)
                           /\ FracSame(rows[i].rank_metric, rows[j].rank_metric)) =>
                        FirstAppearance(rows[i].liaison) < FirstAppearance(rows[j].liaison)

\* The late_arr_count-weighted sum of a cause share over the rows of a liaison of
\* the dominance summary (the weighted mean share times the liaison's weight).
WeightedShare(liaison, c) ==
    SumInts([i \in 1..Len(dff) |->
        IF liaison_key(dff[i], Get(session, "treat_bidirectional", TRUE)) = liaison
        THEN fillna0(dff[i].cause[c]) * fillna0(dff[i].late_arr_count)
        ELSE 0])

LateOf(liaison) ==
    SumInts([i \in 1..Len(dff) |->
        IF liaison_key(dff[i], Get(session, "treat_bidirectional", TRUE)) = liaison
        THEN dff[i].late_arr_count
        ELSE 0])

\* C14: the dominant cause of a liaison is the cause with the largest
\* late_arr_count-weighted mean share, the first in declaration order on a tie;
\* shares 20 / 45 / 35 for External / Infrastructure / Traffic give Infrastructure.
C14_DominantCause ==
    (Shown("liaison_cause_dominance_summary") /\ "out" \in DOMAIN view) =>
        \A k \in 1..Len(view.out) :
            LET l == view.out[k].liaison
                largest == {c \in CauseIdx :
                               \A j \in CauseIdx : WeightedShare(l, j) <= WeightedShare(l, c)}
                first == CHOOSE c \in largest : \A j \in largest : c <= j
            IN  /\ LateOf(l) > 0 => view.out[k].dominant_cause = _CAUSE_LABELS[first]
                /\ (LateOf(l) > 0 /\ \A c \in CauseIdx :
                        WeightedShare(l, c) = <<20, 45, 35, 0, 0, 0>>[c] * LateOf(l)) =>
                      view.out[k].dominant_cause = "Infrastructure"

\* A summary with the liaison of shares 20 / 45 / 35 and a liaison whose first and
\* last causes tie for the largest share.
C14_Witness ==
    /\ Shown("liaison_cause_dominance_summary")
    /\ "out" \in DOMAIN view
    /\ \E k \in 1..Len(view.out) :
          /\ LateOf(view.out[k].liaison) > 0
          /\ \A c \in CauseIdx : WeightedShare(view.out[k].liaison, c)
                                    = <<20, 45, 35, 0, 0, 0>>[c] * LateOf(view.out[k].liaison)
          /\ view.out[k].dominant_cause = "Infrastructure"
    /\ \E k \in 1..Len(view.out) :
          /\ WeightedShare(view.out[k].liaison, 1) = WeightedShare(view.out[k].liaison, 6)
          /\ WeightedShare(view.out[k].liaison, 1) > WeightedShare(view.out[k].liaison, 2)
          /\ view.out[k].dominant_cause = "External"

\* The late_arr_count total of the liaison summary the curve is drawn from.
SummaryLate ==
    SumInts(Col(liaison_summary(dff, Get(session, "treat_bidirectional", FALSE)),
                "late_arr_count"))

\* No liaison of the summary has a negative late_arr_count.
SummaryCountsNonNegative ==
    LET summ == liaison_summary(dff, Get(session, "treat_bidirectional", FALSE))
    IN  \A i \in 1..Len(summ) : summ[i].late_arr_count >= 0

\* The points shown are non-decreasing on both axes, within [0,100] on both axes,
\* and end at (100,100).
LorenzShape ==
    /\ view.out # None
    /\ LET pts == view.out[1]
           n == Len(pts)
       IN  /\ n > 0
           /\ \A i \in 1..n :
                 /\ FracIn(pts[i].cum_liaisons, 0, 100)
                 /\ FracIn(pts[i].cum_late_share, 0, 100)
           /\ \A i \in 1..(n - 1) :
                 /\ ~FracLt(pts[i + 1].cum_liaisons, pts[i].cum_liaisons)
                 /\ ~FracLt(pts[i + 1].cum_late_share, pts[i].cum_late_share)
           /\ FracSame(pts[n].cum_liaisons, Frac(100, 1))
           /\ FracSame(pts[n].cum_late_share, Frac(100, 1))

\* C15 as stated: for a non-empty liaison summary with a positive late_arr_count
\* total, the Lorenz points are non-decreasing on both axes, lie in [0,100] on
\* both axes and end at (100,100); with a total of zero or less no curve is
\* produced.
C15_LorenzCurve_AsStated ==
    Shown("lorenz_late_share") =>
        IF SummaryLate <= 0 THEN view.out = None ELSE LorenzShape

\* C15, amended: the same for a summary in which no liaison has a negative
\* late_arr_count; with a total of zero or less no curve is produced, whatever
\* the counts.
C15_LorenzCurve ==
    Shown("lorenz_late_share") =>
        IF SummaryLate <= 0 THEN view.out = None
        ELSE SummaryCountsNonNegative => LorenzShape

\* A curve of two points or more over liaisons of different, non-negative counts.
C15_Witness ==
    /\ Shown("lorenz_late_share")
    /\ SummaryLate > 0
    /\ SummaryCountsNonNegative
    /\ view.out # None
    /\ Len(view.out[1]) >= 2
    /\ FracLt(view.out[1][1].cum_late_share, Frac(100, 1))

(* ------------------------ claims on the outliers ------------------------ *)

\* The months of a liaison that the shown result flags.
FlaggedMonths(l) ==
    {view.out[k].date : k \in {j \in 1..Len(view.out) : view.out[j].liaison = l}}

Violates(r, k) ==
    CASE k = 1 -> notna(r.late_arr_count) /\ r.late_arr_count > r.circulated
      [] k = 2 -> notna(r.late_over_15_count) /\ r.late_over_15_count > r.circulated
      [] k = 3 -> /\ notna(r.late_over_30_count) /\ notna(r.late_over_15_count)
                  /\ r.late_over_30_count > r.late_over_15_count
      [] k = 4 -> /\ notna(r.late_over_60_count) /\ notna(r.late_over_30_count)
                  /\ r.late_over_60_count > r.late_over_30_count
      [] k = 5 -> /\ notna(r.avg_delay_arr_all_min) /\ notna(r.avg_delay_arr_delayed_min)
                  /\ r.avg_delay_arr_all_min > r.avg_delay_arr_delayed_min

C18_DuplicateGroupsWithRows ==
    Shown("duplicate_keys") =>
        LET group(key) == {i \in 1..Len(dff) : CoreKey(dff[i]) = key}
            keyOf(e) == <<e.date, e.service, e.departure, e.arrival>>
        IN  /\ \A i \in 1..Len(dff) :
                  Cardinality(group(CoreKey(dff[i]))) > 1 =>
                      \E e \in 1..Len(view.out) :
                          /\ keyOf(view.out[e]) = CoreKey(dff[i])
                          /\ "rows" \in DOMAIN view.out[e]
                          /\ view.out[e].rows = {dff[j] : j \in group(CoreKey(dff[i]))}
            /\ \A e \in 1..Len(view.out) : Cardinality(group(keyOf(view.out[e]))) > 1

\* A (row, column, value) is reported by the shown bounds check.
Reported(row_id, column, value) ==
    \E e \in 1..Len(view.out) :
        /\ view.out[e].row_id = row_id
        /\ view.out[e].column = column
        /\ view.out[e].value = value

\* C19: bounds_issues reports the row, the column and the value of every pct_*
\* value outside [0,100], of every negative value of a count-like column and of
\* every non-positive avg_duration_min, and reports nothing for values inside
\* those bounds.
C19_BoundsReported ==
    Shown("bounds_issues") =>
        /\ \A i \in 1..Len(dff) :
              /\ \A k \in DOMAIN dff[i].cause :
                    (notna(dff[i].cause[k]) /\ (dff[i].cause[k] < 0 \/ dff[i].cause[k] > 100))
                        <=> Reported(dff[i].row_id, CauseCols[k], dff[i].cause[k])
              /\ \A c \in {CountCols[k] : k \in 1..Len(CountCols)} :
                    (notna(dff[i][c]) /\ dff[i][c] < 0)
                        <=> Reported(dff[i].row_id, c, dff[i][c])
              /\ (notna(dff[i].avg_duration_min) /\ dff[i].avg_duration_min <= 0)
                    <=> Reported(dff[i].row_id, "avg_duration_min", dff[i].avg_duration_min)
        /\ \A e \in 1..Len(view.out) :
              \E i \in 1..Len(dff) : view.out[e].row_id = dff[i].row_id

(* ------------------------- claims on the load --------------------------- *)

\* The table of the session was read from the whole source file, or from a cache
\* written from it.
FromWholeSource ==
    IF parquet.exists /\ parquet.readable THEN parquet.whole ELSE csv_file.whole

\* C20: in every run of the load, a load that hits a fatal error stores no
\* canonical table, and a canonical table is in the session, and a page computes
\* on it, only after a complete read of the cache or a complete load-and-clean of
\* the source file: never on a part of it.
C20_NoPartialTable ==
    /\ (view.op = "stopped" /\ view.why \in {"csv", "clean", "download"}) =>
          (~loaded /\ df_clean = <<>>)
    /\ loaded => FromWholeSource
    /\ view.op \in Pages => FromWholeSource

(* ------------------------ claims on the ranking ------------------------- *)

\* Every group of the ranking on display, with its metric value.
RankedGroups ==
    liaison_ranking(dff, view.metric, Get(session, "treat_bidirectional", FALSE),
                    Len(dff)).top

\* Group a is strictly stronger than group b on the metric: a higher on-time %, a
\* lower average delay or cancel rate; a group with a value is stronger than a
\* group without one.
Stronger(a, b, metric) ==
    IF IsNaN(a.rank_metric) THEN FALSE
    ELSE IF IsNaN(b.rank_metric) THEN TRUE
    ELSE IF metric = "On-time arrival %" THEN FracLt(b.rank_metric, a.rank_metric)
    ELSE FracLt(a.rank_metric, b.rank_metric)

InTable(g, table) == \E k \in 1..Len(table) : table[k].liaison = g.liaison

\* The first table holds the first N groups of the sorted result, the second its
\* last N groups.
HeadAndTail ==
    LET all == RankedGroups
        n == IF Len(all) < view.top_n THEN Len(all) ELSE view.top_n
    IN  /\ Len(view.out.top) = n /\ Len(view.out.bottom) = n
        /\ \A k \in 1..n : /\ view.out.top[k].liaison = all[k].liaison
                           /\ view.out.bottom[k].liaison = all[Len(all) - n + k].liaison

\* C21 as stated: for each of the three metrics the first table (the head of the
\* sorted result) holds the weakest groups and the second (the tail) the strongest.
C21_HeadWeakest_AsStated ==
    Shown("liaison_ranking") =>
        /\ HeadAndTail
        /\ \A k \in 1..Len(RankedGroups) :
              LET g == RankedGroups[k]
              IN  /\ ~InTable(g, view.out.top) =>
                        \A j \in 1..Len(view.out.top) :
                            ~Stronger(view.out.top[j], g, view.metric)
                  /\ ~InTable(g, view.out.bottom) =>
                        \A j \in 1..Len(view.out.bottom) :
                            ~Stronger(g, view.out.bottom[j], view.metric)

\* C21, amended: for each of the three metrics the first table (the head of the
\* sorted result) holds the strongest groups, strongest first, and the second
\* (the tail) the weakest, groups without a value last.
C21_HeadStrongest ==
    Shown("liaison_ranking") =>
        /\ HeadAndTail
        /\ \A i, j \in 1..Len(RankedGroups) :
              i < j => ~Stronger(RankedGroups[j], RankedGroups[i], view.metric)
        /\ \A k \in 1..Len(RankedGroups) :
              LET g == RankedGroups[k]
              IN  /\ ~InTable(g, view.out.top) =>
                        \A j \in 1..Len(view.out.top) :
                            ~Stronger(g, view.out.top[j], view.metric)
                  /\ ~InTable(g, view.out.bottom) =>
                        \A j \in 1..Len(view.out.bottom) :
                            ~Stronger(view.out.bottom[j], g, view.metric)

\* A ranking of groups of different strength in which the first table leaves a
\* group out.
C21_Witness ==
    /\ Shown("liaison_ranking")
    /\ Len(RankedGroups) > Len(view.out.top)
    /\ Len(view.out.top) >= 1
    /\ \E k \in 1..Len(RankedGroups) :
          /\ ~InTable(RankedGroups[k], view.out.top)
          /\ Stronger(view.out.top[1], RankedGroups[k], view.metric)

(* ------------------------ claims on the summary ------------------------- *)

\* The rows of the filtered table that fall under a liaison key of the summary.
SummaryGroup(l) ==
    LET norm == _normalize_pair_cols(dff)
        bi == Get(session, "treat_bidirectional", FALSE)
    IN  {i \in 1..Len(dff) : (IF bi THEN norm[i].liaison_norm ELSE dff[i].liaison) = l}

\* The values of a column that are the most frequent among the rows at idx.
MostFrequent(idx, c) ==
    {dff[i][c] : i \in {j \in idx :
        \A k \in idx : Cardinality({m \in idx : dff[m][c] = dff[k][c]})
                          <= Cardinality({m \in idx : dff[m][c] = dff[j][c]})}}

\* The row at which a value of a column first appears among the rows at idx.
FirstSeen(idx, c, v) == CHOOSE i \in idx : dff[i][c] = v /\ \A j \in idx : dff[j][c] = v => i <= j

\* C22 as stated: the summary labels each liaison key with its most frequent
\* service and duration_class, and among equally frequent values with the one
\* that appears first among the group's rows.
C22_ModeFirstSeen_AsStated ==
    Shown("liaison_summary") =>
        \A k \in 1..Len(view.out), c \in {"service", "duration_class"} :
            LET idx == SummaryGroup(view.out[k].liaison)
                best == MostFrequent(idx, c)
            IN  /\ view.out[k][c] \in best
                /\ \A v \in best : FirstSeen(idx, c, view.out[k][c]) <= FirstSeen(idx, c, v)

\* C22, amended: the summary labels each liaison key with its most frequent
\* service and duration_class, and among equally frequent values with the
\* smallest one in code-point order.
C22_ModeSmallest ==
    Shown("liaison_summary") =>
        \A k \in 1..Len(view.out), c \in {"service", "duration_class"} :
            LET idx == SummaryGroup(view.out[k].liaison)
                best == MostFrequent(idx, c)
            IN  /\ view.out[k][c] \in best
                /\ \A v \in best : TextRank(view.out[k][c]) <= TextRank(v)

\* A merged liaison whose two rows differ in service, neither being more frequent,
\* labelled with the service of its second row.
C22_Witness ==
    /\ Shown("liaison_summary")
    /\ \E k \in 1..Len(view.out) :
          LET idx == SummaryGroup(view.out[k].liaison)
          IN  /\ Cardinality(MostFrequent(idx, "service")) = 2
              /\ \E i \in idx : /\ dff[i].service = view.out[k].service
                                /\ \E j \in idx : j < i /\ dff[j].service # dff[i].service

(* ----------------------- claims on the cause mix ------------------------ *)

\* Over the rows of the filtered table at idx: the late_arr_count total, and the
\* late_arr_count-weighted sum of a cause share (a missing share counts for 0).
LateAt(idx) == SumInts([i \in 1..Len(dff) |-> IF i \in idx THEN dff[i].late_arr_count ELSE 0])

ShareAt(idx, c) ==
    SumInts([i \in 1..Len(dff) |->
        IF i \in idx THEN fillna0(dff[i].cause[c]) * fillna0(dff[i].late_arr_count) ELSE 0])

\* The group has late arrivals and a cause with a positive weighted share.
HasCauseMix(idx) == LateAt(idx) > 0 /\ \E c \in CauseIdx : ShareAt(idx, c) > 0

Dff2 == attach_coords(dff, load_station_lookup(stations))

\* The sum of a count over the rows of dff2 that touch a station at a place, as
\* departure and as arrival (a round trip is counted on both sides).
TouchSum(s, lat, lon, c) ==
    SumInts([i \in 1..Len(Dff2) |->
        IF Dff2[i].departure = s /\ Dff2[i].dep_lat = lat /\ Dff2[i].dep_lon = lon
        THEN Dff2[i][c] ELSE 0])
    + SumInts([i \in 1..Len(Dff2) |->
        IF Dff2[i].arrival = s /\ Dff2[i].arr_lat = lat /\ Dff2[i].arr_lon = lon
        THEN Dff2[i][c] ELSE 0])

\* The stations of dff2 that have coordinates on some row.
Located ==
    {Dff2[i].departure : i \in {k \in 1..Len(Dff2) : Dff2[k].dep_lat # NA /\ Dff2[k].dep_lon # NA}}
    \cup {Dff2[i].arrival : i \in {k \in 1..Len(Dff2) : Dff2[k].arr_lat # NA /\ Dff2[k].arr_lon # NA}}

\* C24: station_metrics counts every record once for its departure station and
\* once for its arrival station: the circulated and late_arr_count of a station
\* are the sums over the records that leave it plus the sums over the records
\* that reach it, whatever the other end of the record is.
C24_StationBothEnds ==
    Shown("station_metrics") =>
        /\ {view.out[k].station : k \in 1..Len(view.out)} = Located
        /\ \A k \in 1..Len(view.out) :
              LET r == view.out[k]
              IN  /\ r.circulated = TouchSum(r.station, r.lat, r.lon, "circulated")
                  /\ r.late_arr_count = TouchSum(r.station, r.lat, r.lon, "late_arr_count")

\* A station that a record leaves for a station without coordinates and that
\* another record reaches.
C24_Witness ==
    /\ Shown("station_metrics")
    /\ \E k \in 1..Len(view.out), i, j \in 1..Len(Dff2) :
          /\ Dff2[i].departure = view.out[k].station
          /\ Dff2[i].arr_lat = NA
          /\ Dff2[j].arrival = view.out[k].station
          /\ Dff2[j].departure # view.out[k].station
          /\ view.out[k].circulated > 0

\* The places the reference table gives for a station name after folding.
FoldedPlaces(name) ==
    {<<stations[i].lat, stations[i].lon>> :
        i \in {k \in 1..Len(stations) : _norm_name(stations[k].station) = _norm_name(name)}}

\* Both ends of an edge carry the coordinates of a reference row that has the
\* same folded name, when there is one.
EdgeFoldedCoords(e) ==
    LET names == _split_liaison(e.liaison)
    IN  /\ FoldedPlaces(names[1]) # {} => <<e.dep_lat, e.dep_lon>> \in FoldedPlaces(names[1])
        /\ FoldedPlaces(names[2]) # {} => <<e.arr_lat, e.arr_lon>> \in FoldedPlaces(names[2])

\* C25: every coordinate lookup of the geographic views uses the folded station
\* name: a station whose folded name equals a folded reference name gets that
\* station's coordinates on directed edges and on the ends of merged edges.
C25_FoldedLookup ==
    (Shown("build_edges") \/ Shown("_merge_bidirectional_edges")) =>
        \A k \in 1..Len(view.out) : EdgeFoldedCoords(view.out[k])

(* --------------------- claims on the quality score --------------------- *)

\* min(cap, 100 * len / n), nothing for an empty issue table.
Penalty(len, cap) ==
    IF len = 0 THEN Frac(0, 1) ELSE FMin(Frac(cap, 1), Frac(100 * len, view.n_rows))

\* 100 minus half the mean of the missingness percentages of the columns, minus
\* the capped rates of the four issue tables.
StatedScore ==
    FSub(FSub(FSub(FSub(FSub(Frac(100, 1),
        FMul(Frac(1, 2), MeanFloats([c \in 1..Len(view.miss) |-> view.miss[c].missing_pct]))),
        Penalty(view.dup_keys, 10)), Penalty(view.b_issues, 15)),
        Penalty(view.logic, 15)), Penalty(view.outs, 15))

\* C26: the composite data-quality score is an integer in [0, 100]: 100 minus
\* half the mean missingness percentage, minus min(10, duplicate rate), minus
\* min(15, rate) for each of the bounds, logic and outlier tables, rounded and
\* floored at 0.
C26_ScoreAsStated ==
    Shown("_dq_score") =>
        /\ view.score \in 0..100
        /\ view.score = (IF RoundAt(StatedScore, 1).n < 0 THEN 0 ELSE RoundAt(StatedScore, 1).n)

(* ----------------------- claims on the date slider --------------------- *)

\* The first days of the catalog's months.
CatalogDates ==
    {ToDate(ToTimestamp(catalog.date_options[i])) : i \in 1..Len(catalog.date_options)}

\* The month m of the catalog is the nearest one to the day d, the earlier month
\* when two months are equally near.
NearestMonth(m, d) ==
    /\ \E i \in 1..Len(catalog.date_options) : catalog.date_options[i] = m
    /\ \A x \in CatalogDates :
          LET mine == Abs(ToDate(ToTimestamp(m)) - d)
              other == Abs(x - d)
          IN  mine < other \/ (mine = other /\ ToDate(ToTimestamp(m)) <= x)

\* C27: with at least one month in the catalog, after every run of the date
\* slider date_start and date_end are months of the catalog, each the nearest
\* one to the selected date (the earlier month on a tie), and date_start is not
\* after date_end.
C27_SliderSnaps ==
    (view.op = "overview" /\ catalog.date_options # <<>>) =>
        /\ "date_range_dt" \in DOMAIN session
        /\ NearestMonth(session["date_start"], session["date_range_dt"][1])
        /\ NearestMonth(session["date_end"], session["date_range_dt"][2])
        /\ ToTimestamp(session["date_start"]) <= ToTimestamp(session["date_end"])

\* The slider was left with its start on the day half way between two months of
\* the catalog and its end nearer the later month.
C27_Witness ==
    /\ view.op = "overview"
    /\ "date_range_dt" \in DOMAIN session
    /\ \E a, b \in CatalogDates :
          /\ a < b
          /\ session["date_range_dt"][1] - a = b - session["date_range_dt"][1]
          /\ session["date_start"] = StrftimeDate(a)
          /\ session["date_range_dt"][2] > session["date_range_dt"][1]
          /\ session["date_end"] = StrftimeDate(b)

(* -------------------- claims on the coordinate join -------------------- *)

\* C28: attach_coords returns one output row per input record, whatever the
\* records and the station reference table (two names of the table may fold to
\* the same key), so the sums of planned, circulated and late_arr_count over its
\* output are the sums over its input.
C28_OneRowPerRecord ==
    Shown("attach_coords") =>
        /\ Len(view.out) = Len(dff)
        /\ \A c \in {"planned", "circulated", "late_arr_count"} :
              SumInts(Col(view.out, c)) = SumInts(Col(dff, c))

(* ----------------------- claims on the late chain ---------------------- *)

\* The rules of the chain 60 <= 30 <= 15 <= circulated among the five rules.
ChainRules == {">=60 <= >=30", ">=30 <= >=15", ">=15 <= circulated"}

\* C29: for every row, check_late_chain_ok is false exactly when
\* logical_consistency reports for that row a violation of one of the chain
\* rules, rows with missing counts included.
C29_ChainFlagMatchesReport ==
    Shown("logical_consistency") =>
        \A i \in 1..Len(dff) :
            (~dff[i].check_late_chain_ok) <=>
                \E e \in 1..Len(view.out) :
                    view.out[e].row_id = dff[i].row_id /\ view.out[e].rule \in ChainRules

(* ---------------------- claims on the merged edges --------------------- *)

\* The row of liaison_summary, pairs merged, for an undirected liaison.
SummaryRows(l) ==
    LET t == liaison_summary(dff, TRUE)
    IN  {t[j] : j \in {k \in 1..Len(t) : t[k].liaison = l}}

\* C30: for every undirected liaison whose two ends have coordinates, the merged
\* geographic edge has the on-time % and the cancel rate % that liaison_summary
\* with treat_bidirectional computes from the same rows, and its circulated
\* count is the summary's circulated sum.
C30_MergedEdgeMatchesSummary ==
    Shown("_merge_bidirectional_edges") =>
        \A k \in 1..Len(view.out) :
            LET e == view.out[k]
            IN  (e.dep_lat # NA /\ e.dep_lon # NA /\ e.arr_lat # NA /\ e.arr_lon # NA) =>
                    \E r \in SummaryRows(e.liaison) :
                        /\ FracSame(e.on_time_pct, r.on_time_pct)
                        /\ FracSame(e.cancel_rate_pct, r.cancel_rate_pct)
                        /\ e.circulated = r.circulated

====
